---- MODULE Spec2Model ----
(***************************************************************************)
(* Model of the scripture engine of colesites/present.                     *)
(*                                                                         *)
(*  Part I   Corpus ingestion: processBibleBuffer, importFromJson,         *)
(*           importFromXml, importFromSimpleXml, importFromOsisXml and     *)
(*           performBatchImport (src/unnamed/part_001) over the Dexie      *)
(*           store (versions, books, verses).                              *)
(*  Part II  Reference input: getSuggestions, getSmartTransform            *)
(*           (src/src/features/scripture/lib/autocomplete.ts) and          *)
(*           ScriptureInput.handleChange                                   *)
(*           (src/src/features/scripture/components/ScripturePanel.tsx).   *)
(*  Part III The reference parser and the pure functions of the input.     *)
(*  Part IV  usePlayback (src/src/hooks/usePlayback.ts).                   *)
(*  Part V   useSpeechRecognition (src/unnamed/part_000).                  *)
(*                                                                         *)
(* Text that the code inspects character by character (file names, bible   *)
(* names, the reference being typed) is a sequence of one-character        *)
(* strings; text the code only copies or compares (ids, keys, verse text)  *)
(* is a TLA+ string.                                                       *)
(***************************************************************************)
EXTENDS Integers, Sequences, FiniteSets, TLC

VARIABLES
    versions,   \* db.versions : set of version records, primary key id
    books,      \* db.books    : set of book records, primary key pk
    verses,     \* db.verses   : set of verse records, primary key pk
    now,        \* Date.now()
    txOwner,    \* the import whose read-write transaction is running, or NoProc
    txBackup,   \* the three tables as they were when that transaction began
    pc,         \* pc[p]    : position of import p
    input,      \* input[p] : the buffer and file-name hint import p was called with
    job,        \* job[p]   : the (version, verses, books) triple import p decoded
    batch,      \* batch[p] : the loop index i of performBatchImport
    started,    \* number of calls of processBibleBuffer so far
    done,       \* the imports that have ended, in the order they ended
    writes      \* writes[p] : store operations import p has issued so far

importVars == <<versions, books, verses, now, txOwner, txBackup, pc, input, job,
                batch, started, done, writes>>

VARIABLES
    value,          \* the state `value` of ScriptureInput
    suggestions,    \* the state `suggestions`
    selectedIndex,  \* the state `selectedIndex`
    showDropdown,   \* the state `showDropdown`
    pending,        \* the calls of updateSuggestions still before their await
    event           \* the last event handled, with the value it found

inputVars == <<value, suggestions, selectedIndex, showDropdown, pending, event>>

VARIABLES
    refString,      \* the text a pure function of the reference input is applied to
    answer          \* the function applied last and what it returned

textVars == <<refString, answer>>

VARIABLES
    orgId,              \* the argument of usePlayback
    playback,           \* playback?.activeSlideId, as the cached query gives it
    localActiveSlideId, \* the state `localActiveSlideId`
    hasLocalChanges,    \* the ref `hasLocalChanges`
    stored,             \* activeSlideId of the localStorage item
    effectDue,          \* the effect of lines 56-65 is to run: a dependency changed
    inFlight,           \* the calls of setActiveSlide the server has not answered
    posted,             \* slideId of the last message on the broadcast channel
    selected            \* the slide id of the last selectSlide that got past line 77

playVars == <<orgId, playback, localActiveSlideId, hasLocalChanges, stored,
              effectDue, inFlight, posted, selected>>

VARIABLES
    continuous,         \* the option `continuous` of useSpeechRecognition
    isListening,        \* the state `isListening`
    error,              \* the state `error`
    transcript,         \* the state `transcript`: the final results, as words
    interimTranscript,  \* the state `interimTranscript`
    isStoppingRef,      \* the ref `isStoppingRef`
    recognizer,         \* the SpeechRecognition object: idle, starting, running, ending
    stopRequested,      \* stop() was called on the recognizer since it started
    wanted,             \* the user is to be listening: startListening was called last
    lastStart           \* who called recognition.start() last, and a bit that flips

speechVars == <<continuous, isListening, error, transcript, interimTranscript,
                isStoppingRef, recognizer, stopRequested, wanted, lastStart>>

vars == <<importVars, inputVars, textVars, playVars, speechVars>>

-----------------------------------------------------------------------------
(* Bounds of the model.                                                    *)

\* length of the free texts the functions of the reference input are applied to
MaxTextLen == 4
\* rows of a JSON document's verses array
MaxRows == 2
\* calls of processBibleBuffer in one behaviour
MaxImports == 2
\* BATCH_SIZE of performBatchImport (500 in the source), scaled so that an
\* import of MaxRows rows has more than one batch
BATCH_SIZE == 1

Procs == {"p1", "p2"}
NoProc == "none"
\* an originalFileName that was not passed (undefined or "": both falsy)
NoFileName == <<>>
\* input[p] before the first import of p
NoInput == <<>>

-----------------------------------------------------------------------------
(* Character-level text.                                                   *)

UpperChars == <<"A", "B", "C", "D", "E", "F", "G", "H", "I", "J", "K", "L", "M",
                "N", "O", "P", "Q", "R", "S", "T", "U", "V", "W", "X", "Y", "Z">>
LowerChars == <<"a", "b", "c", "d", "e", "f", "g", "h", "i", "j", "k", "l", "m",
                "n", "o", "p", "q", "r", "s", "t", "u", "v", "w", "x", "y", "z">>
Digits == <<"0", "1", "2", "3", "4", "5", "6", "7", "8", "9">>

Range(f) == {f[i] : i \in DOMAIN f}

LowerOf == [c \in Range(UpperChars) |->
               LowerChars[CHOOSE i \in DOMAIN UpperChars : UpperChars[i] = c]]
Lower(c) == IF c \in DOMAIN LowerOf THEN LowerOf[c] ELSE c

\* String.prototype.toLowerCase
ToLowerCase(s) == [i \in 1..Len(s) |-> Lower(s[i])]

\* s.replace(/[_-]/g, " ")
ReplaceSeparators(s) ==
    [i \in 1..Len(s) |-> IF s[i] \in {"_", "-"} THEN " " ELSE s[i]]

\* s.replace(/\s+/g, "-") : every maximal run of white space becomes one hyphen
RECURSIVE ReplaceSpaces(_)
ReplaceSpaces(s) ==
    IF s = <<>> THEN <<>>
    ELSE IF Head(s) = " "
         THEN IF Len(s) > 1 /\ s[2] = " "
              THEN ReplaceSpaces(Tail(s))
              ELSE <<"-">> \o ReplaceSpaces(Tail(s))
         ELSE <<Head(s)>> \o ReplaceSpaces(Tail(s))

\* the JavaScript string with these characters
RECURSIVE Str(_)
Str(s) == IF s = <<>> THEN "" ELSE Head(s) \o Str(Tail(s))

\* the index of the first "." of s, or Len(s) + 1
RECURSIVE FirstDot(_, _)
FirstDot(s, i) ==
    IF i > Len(s) THEN i ELSE IF s[i] = "." THEN i ELSE FirstDot(s, i + 1)

\* name.split(".")[0]
FileNameBase(name) == SubSeq(name, 1, FirstDot(name, 1) - 1)

\* name.endsWith(suffix)
EndsWith(name, suffix) ==
    /\ Len(name) >= Len(suffix)
    /\ SubSeq(name, Len(name) - Len(suffix) + 1, Len(name)) = suffix

DotJson == <<".", "j", "s", "o", "n">>
DotXml == <<".", "x", "m", "l">>

\* texts the model names
Bible == <<"b", "i", "b", "l", "e">>
-----------------------------------------------------------------------------
(* Inputs of processBibleBuffer: a buffer and an optional file name.       *)

\* {pk, version, ...v}: the fields of v win over those of base
Spread(base, v) == v @@ base

Absent == <<>>

\* the objects with no field or with the one field `name` drawn from S
Optional(name, S) == {Absent} \cup {[k \in {name} |-> v] : v \in S}

BookIds == {"gen"}
Chapters == {1}
VerseNumbers == {1, 2}
Texts == {"a"}
\* a `version` field that a verse row of a JSON document carries itself
RowVersions == {"k-j"}

\* the elements of data.verses: the four fields the decoder reads, and
\* optionally an extra field of their own
JsonRows ==
    { row @@ extra :
        row \in [bookId : BookIds, chapter : Chapters, verse : VerseNumbers,
                 text : Texts],
        extra \in Optional("version", RowVersions) }

RowLists == UNION {[1..n -> JsonRows] : n \in 0..MaxRows}

\* JSON values of data.verses: an array, or a value that has no map method
JsonArray(items) == [type |-> "array", items |-> items]
NotAnArray == [type |-> "number"]

\* data.books: pre-built book records
JsonBookLists ==
    { <<[pk |-> "kj|gen", version |-> "kj", id |-> "gen", name |-> "Genesis",
         abbreviation |-> "Gen", chapters |-> 1]>> }

\* text of a file: a well-formed JSON object, text that starts with "{" and
\* is no JSON, a well-formed XML document, or anything else
BadJsonText == [syntax |-> "badjson", length |-> 7]
GarbageText == [syntax |-> "garbage", length |-> 9]

\* the file names the model passes as originalFileName and stores in archives
JsonName(stem) == stem \o DotJson
XmlName(stem) == stem \o DotXml

Has(obj, field) == field \in DOMAIN obj

-----------------------------------------------------------------------------
(* The store: three Dexie tables.  versions is keyed by id, books and       *)
(* verses by pk, and both have an index on version.                        *)

Tables == [versions |-> versions, books |-> books, verses |-> verses]
EmptyTables == [versions |-> {}, books |-> {}, verses |-> {}]

\* table.put(record): insert, or replace the record with the same key
Put(table, record) == {r \in table : r.id # record.id} \cup {record}

\* table.where("version").equals(id).delete()
DeleteWhereVersion(table, id) == {r \in table : r.version # id}

\* table.bulkAdd(records) rejects with a ConstraintError when a key of
\* records is already in the table or occurs twice in records
BulkAddRejects(table, records) ==
    \/ \E i \in DOMAIN records : \E r \in table : r.pk = records[i].pk
    \/ \E i, j \in DOMAIN records : i # j /\ records[i].pk = records[j].pk

BulkAdd(table, records) == table \cup Range(records)

-----------------------------------------------------------------------------
(* Decoders.  A decoder returns the arguments of performBatchImport, or    *)
(* throws before it has called it.                                         *)

Threw == [threw |-> TRUE]
Decoded(version, verseList, bookList) ==
    [threw |-> FALSE, version |-> version, verses |-> verseList, books |-> bookList]

\* `${version.id}|${v.bookId}|${v.chapter}|${v.verse}`
VersePk(versionId, bookId, chapter, verse) ==
    versionId \o "|" \o bookId \o "|" \o ToString(chapter) \o "|" \o ToString(verse)

\* the object each element v of data.verses is mapped to
StampRow(versionId, v) ==
    Spread([pk |-> VersePk(versionId, v.bookId, v.chapter, v.verse),
            version |-> versionId], v)

importFromJson(content, defaultName, time) ==
    IF content.syntax # "json" THEN Threw                 \* JSON.parse throws
    ELSE
    LET data == content.data
        fileNameBase == FileNameBase(defaultName)
        bibleName ==
            IF Has(data, "version") /\ Has(data.version, "name")
               /\ data.version.name # <<>>
            THEN data.version.name
            ELSE ReplaceSeparators(fileNameBase)
        baseId ==
            IF Has(data, "version") /\ Has(data.version, "id")
            THEN data.version.id
            ELSE Str(ReplaceSpaces(ToLowerCase(bibleName)))
        \* {...data.version, name, id, lastUpdated, size}
        version ==
            [name |-> Str(bibleName), id |-> baseId, lastUpdated |-> time,
             size |-> content.length]
            @@ (IF Has(data, "version") THEN data.version ELSE Absent)
    IN  IF ~Has(data, "verses") \/ data.verses.type # "array"
        THEN Threw                                        \* data.verses.map throws
        ELSE Decoded(version,
                     [i \in DOMAIN data.verses.items |->
                         StampRow(version.id, data.verses.items[i])],
                     IF Has(data, "books") THEN data.books ELSE <<>>)

-----------------------------------------------------------------------------
(* XML documents: an element is [tag, attrs, kids], a text node is [text]. *)

IsElement(n) == Has(n, "tag")

Element(tag, attrs, kids) == [tag |-> tag, attrs |-> attrs, kids |-> kids]
TextNode(chars) == [text |-> chars]

RECURSIVE TextContent(_), KidsText(_)
\* node.textContent
TextContent(n) == IF IsElement(n) THEN KidsText(n.kids) ELSE n.text
KidsText(kids) ==
    IF kids = <<>> THEN <<>> ELSE TextContent(Head(kids)) \o KidsText(Tail(kids))

\* the elements below a list of sibling nodes, in document order, each with
\* the siblings that follow it (its nextSibling chain)
RECURSIVE Walk(_)
Walk(kids) ==
    IF kids = <<>> THEN <<>>
    ELSE LET n == Head(kids)
         IN  (IF IsElement(n)
              THEN <<[el |-> n, following |-> Tail(kids)]>> \o Walk(n.kids)
              ELSE <<>>)
             \o Walk(Tail(kids))

\* the concatenation of the sequences of a sequence
RECURSIVE Flatten(_)
Flatten(ss) == IF ss = <<>> THEN <<>> ELSE Head(ss) \o Flatten(Tail(ss))

\* the concatenation of F(s[1]), F(s[2]), ...
FlatMap(s, F(_)) == Flatten([i \in DOMAIN s |-> F(s[i])])

\* element.children
Children(el) == SelectSeq(el.kids, IsElement)

\* el.getAttribute(name), with null and "" both the empty text (both falsy)
GetAttribute(el, name) == IF Has(el.attrs, name) THEN el.attrs[name] ELSE <<>>

\* el.getAttribute(names[1]) || el.getAttribute(names[2]) || ... || ""
RECURSIVE FirstAttribute(_, _)
FirstAttribute(el, names) ==
    IF names = <<>> THEN <<>>
    ELSE IF GetAttribute(el, Head(names)) # <<>>
         THEN GetAttribute(el, Head(names))
         ELSE FirstAttribute(el, Tail(names))

\* tagName.toLowerCase() for the tag names of the model
LowerTag(tag) ==
    CASE tag = "BOOK" -> "book"
      [] tag = "BIBLEBOOK" -> "biblebook"
      [] tag = "CHAPTER" -> "chapter"
      [] tag = "VERS" -> "vers"
      [] tag = "OSIS" -> "osis"
      [] OTHER -> tag

IsSpace(c) == c \in {" ", "\t", "\n"}

\* String.prototype.trim
RECURSIVE TrimStart(_), TrimEnd(_)
TrimStart(s) == IF s # <<>> /\ IsSpace(Head(s)) THEN TrimStart(Tail(s)) ELSE s
TrimEnd(s) ==
    IF s # <<>> /\ IsSpace(s[Len(s)]) THEN TrimEnd(SubSeq(s, 1, Len(s) - 1)) ELSE s
Trim(s) == TrimEnd(TrimStart(s))

\* s.replace(/\s+/g, "")
RemoveSpaces(s) == SelectSeq(s, LAMBDA c : ~IsSpace(c))

\* s.substring(0, n)
Substring0(s, n) == SubSeq(s, 1, IF Len(s) < n THEN Len(s) ELSE n)

UpperOf == [c \in Range(LowerChars) |->
               UpperChars[CHOOSE k \in DOMAIN LowerChars : LowerChars[k] = c]]
ToUpperCase(s) ==
    [i \in 1..Len(s) |-> IF s[i] \in DOMAIN UpperOf THEN UpperOf[s[i]] ELSE s[i]]

\* haystack.includes(needle)
Includes(haystack, needle) ==
    \E i \in 0..(Len(haystack) - Len(needle)) :
        SubSeq(haystack, i + 1, i + Len(needle)) = needle

\* s.split(sep) for a one-character separator
RECURSIVE Split(_, _)
Split(s, sep) ==
    LET cut == CHOOSE i \in 1..(Len(s) + 1) :
                   /\ i = Len(s) + 1 \/ s[i] = sep
                   /\ \A j \in 1..(i - 1) : s[j] # sep
    IN  IF cut = Len(s) + 1 THEN <<s>>
        ELSE <<SubSeq(s, 1, cut - 1)>> \o Split(SubSeq(s, cut + 1, Len(s)), sep)

\* NaN, which no text of the model parses to otherwise (no text has a sign)
NaN == 0 - 1
DigitValue(c) == (CHOOSE i \in DOMAIN Digits : Digits[i] = c) - 1
DigitSet == Range(Digits)
IsDigit(c) == c \in DigitSet

RECURSIVE DigitsValue(_, _)
DigitsValue(s, acc) ==
    IF s = <<>> \/ ~IsDigit(Head(s)) THEN acc
    ELSE DigitsValue(Tail(s), 10 * acc + DigitValue(Head(s)))

\* parseInt(s, 10) for unsigned text: the leading digits after white space
ParseInt(s) ==
    LET t == TrimStart(s)
    IN  IF t = <<>> \/ ~IsDigit(Head(t)) THEN NaN ELSE DigitsValue(t, 0)

\* `${n}` for a number
NumberText(n) == IF n = NaN THEN "NaN" ELSE ToString(n)

\* the largest of the numbers of s that exceed 0; NaN never exceeds anything
RECURSIVE MaxNumber(_, _)
MaxNumber(s, acc) ==
    IF s = <<>> THEN acc
    ELSE MaxNumber(Tail(s),
                   IF Head(s) # NaN /\ Head(s) > acc THEN Head(s) ELSE acc)

-----------------------------------------------------------------------------
(* Lookup tables of the importer.                                          *)

\* the version codes searched for in file names, in the order of the source
KNOWN_BIBLE_VERSIONS == <<
    <<"N", "R", "S", "V", "C", "E">>, <<"N", "R", "S", "V", "A">>, <<"N", "R", "S", "V">>,
    <<"N", "K", "J", "V">>, <<"T", "N", "I", "V">>, <<"A", "M", "P", "C">>,
    <<"H", "C", "S", "B">>, <<"N", "I", "r", "V">>, <<"N", "A", "B", "R", "E">>,
    <<"R", "S", "V", "C", "E">>, <<"K", "J", "V">>, <<"N", "I", "V">>, <<"E", "S", "V">>,
    <<"N", "A", "S", "B">>, <<"N", "L", "T">>, <<"R", "S", "V">>, <<"A", "M", "P">>,
    <<"M", "S", "G">>, <<"C", "S", "B">>, <<"N", "C", "V">>, <<"G", "N", "T">>,
    <<"C", "E", "V">>, <<"T", "P", "T">>, <<"V", "O", "I", "C", "E">>, <<"T", "L", "B">>,
    <<"P", "H", "I", "L", "L", "I", "P", "S">>, <<"M", "O", "U", "N", "C", "E">>,
    <<"N", "E", "T">>, <<"I", "S", "V">>, <<"L", "E", "B">>, <<"W", "E", "B">>,
    <<"A", "S", "V">>, <<"Y", "L", "T">>, <<"D", "A", "R", "B", "Y">>,
    <<"A", "K", "J", "V">>, <<"R", "V">>, <<"E", "R", "V">>, <<"B", "B", "E">>,
    <<"D", "R", "A">>, <<"J", "B">>, <<"N", "J", "B">>, <<"G", "W">>, <<"J", "U", "B">>,
    <<"M", "E", "V">>, <<"N", "O", "G">>, <<"T", "L", "V">>, <<"C", "E", "B">>,
    <<"C", "J", "B">>, <<"E", "H", "V">>, <<"G", "N", "V">>, <<"I", "C", "B">>,
    <<"N", "L", "V">>, <<"B", "S", "B">>, <<"B", "R", "G">>, <<"E", "A", "S", "Y">>,
    <<"E", "X", "B">> >>

\* OSIS book id -> full name
OSIS_BOOK_NAMES == <<
    <<<<"G", "e", "n">>, <<"G", "e", "n", "e", "s", "i", "s">>>>,
    <<<<"E", "x", "o", "d">>, <<"E", "x", "o", "d", "u", "s">>>>,
    <<<<"L", "e", "v">>, <<"L", "e", "v", "i", "t", "i", "c", "u", "s">>>>,
    <<<<"N", "u", "m">>, <<"N", "u", "m", "b", "e", "r", "s">>>>,
    <<<<"D", "e", "u", "t">>, <<"D", "e", "u", "t", "e", "r", "o", "n", "o", "m", "y">>>>,
    <<<<"J", "o", "s", "h">>, <<"J", "o", "s", "h", "u", "a">>>>,
    <<<<"J", "u", "d", "g">>, <<"J", "u", "d", "g", "e", "s">>>>,
    <<<<"R", "u", "t", "h">>, <<"R", "u", "t", "h">>>>,
    <<<<"1", "S", "a", "m">>, <<"1", " ", "S", "a", "m", "u", "e", "l">>>>,
    <<<<"2", "S", "a", "m">>, <<"2", " ", "S", "a", "m", "u", "e", "l">>>>,
    <<<<"1", "K", "g", "s">>, <<"1", " ", "K", "i", "n", "g", "s">>>>,
    <<<<"2", "K", "g", "s">>, <<"2", " ", "K", "i", "n", "g", "s">>>>,
    <<<<"1", "C", "h", "r">>, <<"1", " ", "C", "h", "r", "o", "n", "i", "c", "l", "e", "s">>>>,
    <<<<"2", "C", "h", "r">>, <<"2", " ", "C", "h", "r", "o", "n", "i", "c", "l", "e", "s">>>>,
    <<<<"E", "z", "r", "a">>, <<"E", "z", "r", "a">>>>,
    <<<<"N", "e", "h">>, <<"N", "e", "h", "e", "m", "i", "a", "h">>>>,
    <<<<"E", "s", "t", "h">>, <<"E", "s", "t", "h", "e", "r">>>>,
    <<<<"J", "o", "b">>, <<"J", "o", "b">>>>,
    <<<<"P", "s">>, <<"P", "s", "a", "l", "m", "s">>>>,
    <<<<"P", "r", "o", "v">>, <<"P", "r", "o", "v", "e", "r", "b", "s">>>>,
    <<<<"E", "c", "c", "l">>, <<"E", "c", "c", "l", "e", "s", "i", "a", "s", "t", "e", "s">>>>,
    <<<<"S", "o", "n", "g">>, <<"S", "o", "n", "g", " ", "o", "f", " ", "S", "o", "l", "o", "m", "o", "n">>>>,
    <<<<"I", "s", "a">>, <<"I", "s", "a", "i", "a", "h">>>>,
    <<<<"J", "e", "r">>, <<"J", "e", "r", "e", "m", "i", "a", "h">>>>,
    <<<<"L", "a", "m">>, <<"L", "a", "m", "e", "n", "t", "a", "t", "i", "o", "n", "s">>>>,
    <<<<"E", "z", "e", "k">>, <<"E", "z", "e", "k", "i", "e", "l">>>>,
    <<<<"D", "a", "n">>, <<"D", "a", "n", "i", "e", "l">>>>,
    <<<<"H", "o", "s">>, <<"H", "o", "s", "e", "a">>>>,
    <<<<"J", "o", "e", "l">>, <<"J", "o", "e", "l">>>>,
    <<<<"A", "m", "o", "s">>, <<"A", "m", "o", "s">>>>,
    <<<<"O", "b", "a", "d">>, <<"O", "b", "a", "d", "i", "a", "h">>>>,
    <<<<"J", "o", "n", "a", "h">>, <<"J", "o", "n", "a", "h">>>>,
    <<<<"M", "i", "c">>, <<"M", "i", "c", "a", "h">>>>,
    <<<<"N", "a", "h">>, <<"N", "a", "h", "u", "m">>>>,
    <<<<"H", "a", "b">>, <<"H", "a", "b", "a", "k", "k", "u", "k">>>>,
    <<<<"Z", "e", "p", "h">>, <<"Z", "e", "p", "h", "a", "n", "i", "a", "h">>>>,
    <<<<"H", "a", "g">>, <<"H", "a", "g", "g", "a", "i">>>>,
    <<<<"Z", "e", "c", "h">>, <<"Z", "e", "c", "h", "a", "r", "i", "a", "h">>>>,
    <<<<"M", "a", "l">>, <<"M", "a", "l", "a", "c", "h", "i">>>>,
    <<<<"M", "a", "t", "t">>, <<"M", "a", "t", "t", "h", "e", "w">>>>,
    <<<<"M", "a", "r", "k">>, <<"M", "a", "r", "k">>>>,
    <<<<"L", "u", "k", "e">>, <<"L", "u", "k", "e">>>>,
    <<<<"J", "o", "h", "n">>, <<"J", "o", "h", "n">>>>,
    <<<<"A", "c", "t", "s">>, <<"A", "c", "t", "s">>>>,
    <<<<"R", "o", "m">>, <<"R", "o", "m", "a", "n", "s">>>>,
    <<<<"1", "C", "o", "r">>, <<"1", " ", "C", "o", "r", "i", "n", "t", "h", "i", "a", "n", "s">>>>,
    <<<<"2", "C", "o", "r">>, <<"2", " ", "C", "o", "r", "i", "n", "t", "h", "i", "a", "n", "s">>>>,
    <<<<"G", "a", "l">>, <<"G", "a", "l", "a", "t", "i", "a", "n", "s">>>>,
    <<<<"E", "p", "h">>, <<"E", "p", "h", "e", "s", "i", "a", "n", "s">>>>,
    <<<<"P", "h", "i", "l">>, <<"P", "h", "i", "l", "i", "p", "p", "i", "a", "n", "s">>>>,
    <<<<"C", "o", "l">>, <<"C", "o", "l", "o", "s", "s", "i", "a", "n", "s">>>>,
    <<<<"1", "T", "h", "e", "s", "s">>, <<"1", " ", "T", "h", "e", "s", "s", "a", "l", "o", "n", "i", "a", "n", "s">>>>,
    <<<<"2", "T", "h", "e", "s", "s">>, <<"2", " ", "T", "h", "e", "s", "s", "a", "l", "o", "n", "i", "a", "n", "s">>>>,
    <<<<"1", "T", "i", "m">>, <<"1", " ", "T", "i", "m", "o", "t", "h", "y">>>>,
    <<<<"2", "T", "i", "m">>, <<"2", " ", "T", "i", "m", "o", "t", "h", "y">>>>,
    <<<<"T", "i", "t", "u", "s">>, <<"T", "i", "t", "u", "s">>>>,
    <<<<"P", "h", "l", "m">>, <<"P", "h", "i", "l", "e", "m", "o", "n">>>>,
    <<<<"H", "e", "b">>, <<"H", "e", "b", "r", "e", "w", "s">>>>,
    <<<<"J", "a", "s">>, <<"J", "a", "m", "e", "s">>>>,
    <<<<"1", "P", "e", "t">>, <<"1", " ", "P", "e", "t", "e", "r">>>>,
    <<<<"2", "P", "e", "t">>, <<"2", " ", "P", "e", "t", "e", "r">>>>,
    <<<<"1", "J", "o", "h", "n">>, <<"1", " ", "J", "o", "h", "n">>>>,
    <<<<"2", "J", "o", "h", "n">>, <<"2", " ", "J", "o", "h", "n">>>>,
    <<<<"3", "J", "o", "h", "n">>, <<"3", " ", "J", "o", "h", "n">>>>,
    <<<<"J", "u", "d", "e">>, <<"J", "u", "d", "e">>>>,
    <<<<"R", "e", "v">>, <<"R", "e", "v", "e", "l", "a", "t", "i", "o", "n">>>> >>

\* books 1..66 in Protestant order
standardBooks == <<
    <<"G", "e", "n", "e", "s", "i", "s">>, <<"E", "x", "o", "d", "u", "s">>,
    <<"L", "e", "v", "i", "t", "i", "c", "u", "s">>, <<"N", "u", "m", "b", "e", "r", "s">>,
    <<"D", "e", "u", "t", "e", "r", "o", "n", "o", "m", "y">>,
    <<"J", "o", "s", "h", "u", "a">>, <<"J", "u", "d", "g", "e", "s">>,
    <<"R", "u", "t", "h">>, <<"1", " ", "S", "a", "m", "u", "e", "l">>,
    <<"2", " ", "S", "a", "m", "u", "e", "l">>, <<"1", " ", "K", "i", "n", "g", "s">>,
    <<"2", " ", "K", "i", "n", "g", "s">>,
    <<"1", " ", "C", "h", "r", "o", "n", "i", "c", "l", "e", "s">>,
    <<"2", " ", "C", "h", "r", "o", "n", "i", "c", "l", "e", "s">>, <<"E", "z", "r", "a">>,
    <<"N", "e", "h", "e", "m", "i", "a", "h">>, <<"E", "s", "t", "h", "e", "r">>,
    <<"J", "o", "b">>, <<"P", "s", "a", "l", "m", "s">>,
    <<"P", "r", "o", "v", "e", "r", "b", "s">>,
    <<"E", "c", "c", "l", "e", "s", "i", "a", "s", "t", "e", "s">>,
    <<"S", "o", "n", "g", " ", "o", "f", " ", "S", "o", "l", "o", "m", "o", "n">>,
    <<"I", "s", "a", "i", "a", "h">>, <<"J", "e", "r", "e", "m", "i", "a", "h">>,
    <<"L", "a", "m", "e", "n", "t", "a", "t", "i", "o", "n", "s">>,
    <<"E", "z", "e", "k", "i", "e", "l">>, <<"D", "a", "n", "i", "e", "l">>,
    <<"H", "o", "s", "e", "a">>, <<"J", "o", "e", "l">>, <<"A", "m", "o", "s">>,
    <<"O", "b", "a", "d", "i", "a", "h">>, <<"J", "o", "n", "a", "h">>,
    <<"M", "i", "c", "a", "h">>, <<"N", "a", "h", "u", "m">>,
    <<"H", "a", "b", "a", "k", "k", "u", "k">>,
    <<"Z", "e", "p", "h", "a", "n", "i", "a", "h">>, <<"H", "a", "g", "g", "a", "i">>,
    <<"Z", "e", "c", "h", "a", "r", "i", "a", "h">>, <<"M", "a", "l", "a", "c", "h", "i">>,
    <<"M", "a", "t", "t", "h", "e", "w">>, <<"M", "a", "r", "k">>, <<"L", "u", "k", "e">>,
    <<"J", "o", "h", "n">>, <<"A", "c", "t", "s">>, <<"R", "o", "m", "a", "n", "s">>,
    <<"1", " ", "C", "o", "r", "i", "n", "t", "h", "i", "a", "n", "s">>,
    <<"2", " ", "C", "o", "r", "i", "n", "t", "h", "i", "a", "n", "s">>,
    <<"G", "a", "l", "a", "t", "i", "a", "n", "s">>,
    <<"E", "p", "h", "e", "s", "i", "a", "n", "s">>,
    <<"P", "h", "i", "l", "i", "p", "p", "i", "a", "n", "s">>,
    <<"C", "o", "l", "o", "s", "s", "i", "a", "n", "s">>,
    <<"1", " ", "T", "h", "e", "s", "s", "a", "l", "o", "n", "i", "a", "n", "s">>,
    <<"2", " ", "T", "h", "e", "s", "s", "a", "l", "o", "n", "i", "a", "n", "s">>,
    <<"1", " ", "T", "i", "m", "o", "t", "h", "y">>,
    <<"2", " ", "T", "i", "m", "o", "t", "h", "y">>, <<"T", "i", "t", "u", "s">>,
    <<"P", "h", "i", "l", "e", "m", "o", "n">>, <<"H", "e", "b", "r", "e", "w", "s">>,
    <<"J", "a", "m", "e", "s">>, <<"1", " ", "P", "e", "t", "e", "r">>,
    <<"2", " ", "P", "e", "t", "e", "r">>, <<"1", " ", "J", "o", "h", "n">>,
    <<"2", " ", "J", "o", "h", "n">>, <<"3", " ", "J", "o", "h", "n">>,
    <<"J", "u", "d", "e">>, <<"R", "e", "v", "e", "l", "a", "t", "i", "o", "n">> >>

\* whether OSIS_BOOK_NAMES[abbr] is defined
IsOsisBook(abbr) == \E i \in DOMAIN OSIS_BOOK_NAMES : OSIS_BOOK_NAMES[i][1] = abbr

\* OSIS_BOOK_NAMES[abbr] || abbr
OsisBookName(abbr) ==
    IF IsOsisBook(abbr)
    THEN OSIS_BOOK_NAMES[CHOOSE i \in DOMAIN OSIS_BOOK_NAMES :
                             OSIS_BOOK_NAMES[i][1] = abbr][2]
    ELSE abbr

\* the version code of an XML bible that states none in its attributes
CodeFromFileName(fileNameBase, bibleName) ==
    LET upperFileName == ToUpperCase(fileNameBase)
        found == { i \in DOMAIN KNOWN_BIBLE_VERSIONS :
                     Includes(upperFileName, ToUpperCase(KNOWN_BIBLE_VERSIONS[i])) }
    IN  IF found # {}                                   \* Array.prototype.find
        THEN ToUpperCase(KNOWN_BIBLE_VERSIONS[
                 CHOOSE i \in found : \A j \in found : i <= j])
        ELSE IF Len(fileNameBase) >= 2 /\ Len(fileNameBase) <= 5
             THEN ToUpperCase(fileNameBase)
             ELSE Substring0(ToUpperCase(bibleName), 3)

\* name.toLowerCase().replace(/\s+/g, "").substring(0, 8)
BookIdOf(bookName) == Str(Substring0(RemoveSpaces(ToLowerCase(bookName)), 8))

\* `${version.id}|${bookId}`
BookPk(versionId, bookId) == versionId \o "|" \o bookId


-----------------------------------------------------------------------------
(* importFromSimpleXml                                                     *)

\* the verses pushed for one <chapter> of a book
SimpleChapterVerses(versionId, bookId, bookName, chapterNode) ==
    LET chapterNum ==
            ParseInt(LET a == FirstAttribute(chapterNode, <<"number", "n", "cnumber">>)
                     IN  IF a # <<>> THEN a ELSE <<"0">>)
        verseNodes ==
            SelectSeq(Children(chapterNode),
                      LAMBDA el : LowerTag(el.tag) \in {"verse", "v", "vers"})
        Verse(verseNode) ==
            LET verseNum ==
                    ParseInt(LET a == FirstAttribute(verseNode,
                                                     <<"number", "n", "vnumber">>)
                             IN  IF a # <<>> THEN a ELSE <<"0">>)
                text == TextContent(verseNode)
            IN  IF text # <<>>                                    \* if (text)
                THEN <<[pk |-> versionId \o "|" \o bookId \o "|"
                               \o NumberText(chapterNum) \o "|" \o NumberText(verseNum),
                        version |-> versionId, bookId |-> bookId,
                        bookName |-> Str(bookName), chapter |-> chapterNum,
                        verse |-> verseNum, text |-> Str(text)]>>
                ELSE <<>>
    IN  FlatMap(verseNodes, Verse)

\* the name of a <book>: its attributes, else its number in standardBooks
SimpleBookName(bookNode) ==
    LET named == FirstAttribute(bookNode, <<"name", "title", "n", "bname">>)
        numbered == FirstAttribute(bookNode, <<"number", "bnumber">>)
        bookNum == ParseInt(numbered)
    IN  IF named # <<>> THEN named
        ELSE IF numbered # <<>> /\ bookNum # NaN /\ bookNum > 0 /\ bookNum <= 66
             THEN standardBooks[bookNum]
             ELSE <<>>

SimpleChapterNodes(bookNode) ==
    SelectSeq(Children(bookNode), LAMBDA el : LowerTag(el.tag) \in {"chapter", "c"})

SimpleChapterNumber(chapterNode) ==
    ParseInt(LET a == FirstAttribute(chapterNode, <<"number", "n", "cnumber">>)
             IN  IF a # <<>> THEN a ELSE <<"0">>)

importFromSimpleXml(root, content, defaultName, time) ==
    LET fileNameBase == FileNameBase(defaultName)
        attrName == FirstAttribute(root, <<"name", "title", "n">>)
        bibleName ==
            IF attrName = <<>> \/ ToLowerCase(attrName) = Bible
            THEN ReplaceSeparators(fileNameBase)
            ELSE attrName
        bibleId == Str(ReplaceSpaces(ToLowerCase(bibleName)))
        attrCode == FirstAttribute(root, <<"abbreviation", "shortName", "code">>)
        bibleCode ==
            IF attrCode # <<>> THEN attrCode
            ELSE CodeFromFileName(fileNameBase, bibleName)
        version ==
            [id |-> bibleId, name |-> Str(bibleName),
             code |-> Str(ToUpperCase(bibleCode)), lastUpdated |-> time,
             size |-> content.length]
        \* xmlDoc.getElementsByTagName("*"), filtered
        bookNodes ==
            SelectSeq([i \in DOMAIN Walk(<<root>>) |-> Walk(<<root>>)[i].el],
                      LAMBDA el : LowerTag(el.tag) \in {"book", "b", "biblebook"})
        BookVerses(bookNode) ==
            LET bookName == SimpleBookName(bookNode)
            IN  FlatMap(SimpleChapterNodes(bookNode),
                        LAMBDA ch : SimpleChapterVerses(bibleId, BookIdOf(bookName),
                                                        bookName, ch))
        BookRecord(bookNode) ==
            LET bookName == SimpleBookName(bookNode)
                bookId == BookIdOf(bookName)
                chapterNodes == SimpleChapterNodes(bookNode)
                maxChapter ==
                    MaxNumber([j \in DOMAIN chapterNodes |->
                                   SimpleChapterNumber(chapterNodes[j])], 0)
            IN  IF bookName # <<>>
                THEN <<[pk |-> BookPk(bibleId, bookId), version |-> bibleId,
                        id |-> bookId, name |-> Str(bookName),
                        abbreviation |->
                            Str(FirstAttribute(bookNode, <<"abbreviation", "shortName">>)),
                        chapters |-> maxChapter]>>
                ELSE <<>>
    IN  Decoded(version, FlatMap(bookNodes, BookVerses), FlatMap(bookNodes, BookRecord))

-----------------------------------------------------------------------------
(* importFromOsisXml                                                       *)

\* the text between a start milestone and the next verse start or the end
\* milestone with the same id: the while loop over nextSibling
RECURSIVE MilestoneText(_, _)
\* a scan that stops at the end marker only
RECURSIVE MilestoneTextToEnd(_, _)
MilestoneTextToEnd(following, sID) ==
    IF following = <<>> THEN <<>>
    ELSE LET node == Head(following)
         IN  IF IsElement(node) /\ GetAttribute(node, "eID") = sID
             THEN <<>>
             ELSE TextContent(node) \o MilestoneTextToEnd(Tail(following), sID)

MilestoneText(following, sID) ==
    IF following = <<>> THEN <<>>
    ELSE LET node == Head(following)
         IN  IF ~IsElement(node)
             THEN node.text \o MilestoneText(Tail(following), sID)
             ELSE IF \/ node.tag = "verse"
                        /\ (Has(node.attrs, "osisID") \/ Has(node.attrs, "sID"))
                     \/ GetAttribute(node, "eID") = sID
                  THEN <<>>
                  ELSE TextContent(node) \o MilestoneText(Tail(following), sID)

\* what one <verse> element of a book contributes: its chapter number (for
\* maxChapter) and the verse record pushed for it, if any
OsisVerse(versionId, bookId, bookName, item) ==
    LET verseElement == item.el
        osisAttr == GetAttribute(verseElement, "osisID")
        sID == GetAttribute(verseElement, "sID")
        verseOsisID == IF osisAttr # <<>> THEN osisAttr ELSE sID
        parts == Split(verseOsisID, ".")
    IN  IF Len(parts) < 3 THEN [chapter |-> NaN, pushed |-> <<>>]
        ELSE
        LET chapterNum == ParseInt(parts[2])
            verseNum == ParseInt(parts[3])
            own == TextContent(verseElement)
            text == IF Trim(own) = <<>> /\ sID # <<>>
                    THEN MilestoneText(item.following, sID)
                    ELSE own
        IN  [chapter |-> chapterNum,
             pushed |->
                IF Trim(text) # <<>>
                THEN <<[pk |-> versionId \o "|" \o bookId \o "|"
                               \o NumberText(chapterNum) \o "|" \o NumberText(verseNum),
                        version |-> versionId, bookId |-> bookId,
                        bookName |-> Str(bookName), chapter |-> chapterNum,
                        verse |-> verseNum, text |-> Str(Trim(text))]>>
                ELSE <<>>]

importFromOsisXml(root, content, defaultName, time) ==
    LET fileNameBase == FileNameBase(defaultName)
        all == Walk(<<root>>)
        works == SelectSeq(all, LAMBDA it : it.el.tag = "work")
        hasWork == works # <<>>
        osisWork == works[1].el
        workTitles ==
            IF hasWork
            THEN SelectSeq(Walk(osisWork.kids), LAMBDA it : it.el.tag = "title")
            ELSE <<>>
        metaName ==
            IF hasWork /\ GetAttribute(osisWork, "title") # <<>>
            THEN GetAttribute(osisWork, "title")
            ELSE IF workTitles # <<>> /\ TextContent(workTitles[1].el) # <<>>
                 THEN TextContent(workTitles[1].el)
                 ELSE ReplaceSeparators(fileNameBase)
        bibleName ==
            IF metaName = <<>> \/ ToLowerCase(metaName) = Bible
            THEN ReplaceSeparators(fileNameBase)
            ELSE metaName
        bibleId == Str(ReplaceSpaces(ToLowerCase(bibleName)))
        attrCode ==
            IF hasWork
            THEN FirstAttribute(osisWork, <<"abbreviation", "identifier">>)
            ELSE <<>>
        bibleCode ==
            IF attrCode # <<>> THEN attrCode
            ELSE CodeFromFileName(fileNameBase, bibleName)
        version ==
            [id |-> bibleId, name |-> Str(bibleName),
             code |-> Str(ToUpperCase(bibleCode)), lastUpdated |-> time,
             size |-> content.length]
        typed == SelectSeq(all, LAMBDA it : /\ it.el.tag = "div"
                                            /\ GetAttribute(it.el, "type") = <<"b", "o", "o", "k">>)
        byId == SelectSeq(all, LAMBDA it :
                    /\ it.el.tag = "div"
                    /\ Has(it.el.attrs, "osisID")
                    /\ GetAttribute(it.el, "osisID") # <<>>
                    /\ ~Includes(GetAttribute(it.el, "osisID"), <<".">>)
                    /\ IsOsisBook(GetAttribute(it.el, "osisID")))
        bookDivs == IF typed # <<>> THEN typed ELSE byId
        BookAbbr(bookDiv) == Split(GetAttribute(bookDiv, "osisID"), ".")[1]
        VerseItems(bookDiv) ==
            LET bookName == OsisBookName(BookAbbr(bookDiv))
                found == SelectSeq(Walk(bookDiv.kids), LAMBDA it : it.el.tag = "verse")
            IN  [k \in DOMAIN found |->
                    OsisVerse(bibleId, BookIdOf(bookName), bookName, found[k])]
        BookVerses(item) ==
            FlatMap(VerseItems(item.el), LAMBDA v : v.pushed)
        BookRecord(item) ==
            LET bookAbbr == BookAbbr(item.el)
                bookName == OsisBookName(bookAbbr)
                bookId == BookIdOf(bookName)
                items == VerseItems(item.el)
            IN  <<[pk |-> BookPk(bibleId, bookId), version |-> bibleId,
                   id |-> bookId, name |-> Str(bookName),
                   abbreviation |-> Str(bookAbbr),
                   chapters |-> MaxNumber([k \in DOMAIN items |-> items[k].chapter], 0)]>>
    IN  Decoded(version, FlatMap(bookDivs, BookVerses), FlatMap(bookDivs, BookRecord))

-----------------------------------------------------------------------------
(* importFromXml and processBibleBuffer                                    *)

\* the document DOMParser returns for text that is no well-formed XML
ParserErrorDocument ==
    Element("parsererror", Absent, <<TextNode(<<"e", "r", "r", "o", "r">>)>>)

importFromXml(content, defaultName, time) ==
    LET root == IF content.syntax = "xml" THEN content.root ELSE ParserErrorDocument
    IN  IF LowerTag(root.tag) = "osis"
        THEN importFromOsisXml(root, content, defaultName, time)
        ELSE importFromSimpleXml(root, content, defaultName, time)

\* new TextDecoder().decode(buffer) of the whole buffer
BufferText(buffer) ==
    IF buffer.zip THEN [syntax |-> "garbage", length |-> buffer.length]
    ELSE buffer.content

\* fileContent.trim().startsWith("{")
StartsWithBrace(content) == content.syntax \in {"json", "badjson"}

\* the file content and file name processBibleBuffer settles on before it
\* dispatches (lines 148-170)
ChosenFile(buffer, originalFileName) ==
    LET valid ==
            IF buffer.zip
            THEN SelectSeq(buffer.entries,
                           LAMBDA e : EndsWith(e.name, DotJson) \/ EndsWith(e.name, DotXml))
            ELSE <<>>
        \* unzipSync threw, or the throw of line 159: both land in the catch
        caught == valid = <<>>
        fileContent == IF caught THEN BufferText(buffer) ELSE valid[1].content
        fileName ==
            IF ~caught THEN valid[1].name
            ELSE IF originalFileName # NoFileName THEN originalFileName
            ELSE IF StartsWithBrace(fileContent) THEN JsonName(Bible)
            ELSE XmlName(Bible)
    IN  [fileContent |-> fileContent, fileName |-> fileName]

\* the decoder the dispatch of lines 173-177 calls
Decoder(buffer, originalFileName) ==
    IF EndsWith(ChosenFile(buffer, originalFileName).fileName, DotJson)
    THEN "importFromJson"
    ELSE "importFromXml"

\* everything processBibleBuffer does before performBatchImport is called:
\* the decoded triple, or that it threw
processBibleBuffer(buffer, originalFileName, time) ==
    LET chosen == ChosenFile(buffer, originalFileName)
    IN  IF Decoder(buffer, originalFileName) = "importFromJson"
        THEN importFromJson(chosen.fileContent, chosen.fileName, time)
        ELSE importFromXml(chosen.fileContent, chosen.fileName, time)


-----------------------------------------------------------------------------
(* The inputs of the model.                                                *)

Genesis == <<"G", "e", "n", "e", "s", "i", "s">>

\* <book name="Genesis"><chapter number="1"><verse number="1">a</verse>...
SimpleBook ==
    Element("book", [name |-> Genesis],
        <<Element("chapter", [number |-> <<"1">>],
            <<Element("verse", [number |-> <<"1">>], <<TextNode(<<"a">>)>>)>>)>>)

\* <div type="book" osisID="Gen"><verse sID="Gen.1.1"/>a<verse eID="Gen.1.1"/>
OsisBook ==
    Element("div", [type |-> <<"b", "o", "o", "k">>, osisID |-> <<"G", "e", "n">>],
        <<Element("verse", [sID |-> <<"G", "e", "n", ".", "1", ".", "1">>], <<>>),
          TextNode(<<"a">>),
          Element("verse", [eID |-> <<"G", "e", "n", ".", "1", ".", "1">>], <<>>)>>)

XmlRoots ==
    { Element("bible", a, k) :
        a \in Optional("name", {<<"K", " ", "J">>}), k \in {<<>>, <<SimpleBook>>} }
    \cup { Element("osis", Absent, k) : k \in {<<>>, <<OsisBook>>} }

XmlTexts == [syntax : {"xml"}, root : XmlRoots, length : {60}]

KJ == <<"K", "J">>
K_J == <<"k", "_", "j">>
ReadMe == <<"r", "e", "a", "d", "m", "e", ".", "t", "x", "t">>

PlainRow == [bookId |-> "gen", chapter |-> 1, verse |-> 1, text |-> "a"]

Raw(content) == [zip |-> FALSE, content |-> content]
Zip(entries) == [zip |-> TRUE, entries |-> entries, length |-> 90]
JsonText(data) == [syntax |-> "json", data |-> data, length |-> 40]

\* JSON documents with the id "kj" and every value of data.verses
RowInputs ==
    { [buffer |-> Raw(JsonText([version |-> [id |-> "kj"]] @@ r)),
       originalFileName |-> NoFileName] :
        r \in Optional("verses", {JsonArray(l) : l \in RowLists} \cup {NotAnArray}) }

\* one-verse JSON documents with every way of naming the version
NameInputs ==
    { [buffer |-> Raw(JsonText(v @@ [verses |-> JsonArray(<<PlainRow>>)] @@ b)),
       originalFileName |-> f] :
        v \in Optional("version", {[id |-> "kj"], [name |-> <<"K", " ", "J">>]}),
        b \in Optional("books", JsonBookLists),
        f \in {NoFileName, JsonName(KJ), XmlName(K_J)} }

\* archives, XML documents and text that is neither JSON nor XML
ContainerInputs ==
    { [buffer |-> b, originalFileName |-> f] :
        b \in { Zip(<<>>),
                Zip(<<[name |-> ReadMe, content |-> GarbageText]>>),
                Zip(<<[name |-> ReadMe, content |-> GarbageText],
                      [name |-> JsonName(K_J),
                       content |-> JsonText([verses |-> JsonArray(<<PlainRow>>)])]>>),
                Raw(GarbageText), Raw(BadJsonText) }
              \cup { Raw(x) : x \in XmlTexts },
        f \in {NoFileName, JsonName(KJ)} }

Inputs == RowInputs \cup NameInputs \cup ContainerInputs


-----------------------------------------------------------------------------
(* The importer as a state machine.  Each of up to Procs imports runs      *)
(* processBibleBuffer; everything up to the call of db.transaction is      *)
(* synchronous, each awaited store operation of performBatchImport is a    *)
(* step.  A read-write transaction over the three tables runs alone: the   *)
(* next one starts when it has committed or aborted.  A rejected store     *)
(* operation is not caught, so it aborts the transaction, which undoes     *)
(* every write made in it.                                                 *)

ImportInit ==
    /\ versions = {}
    /\ books = {}
    /\ verses = {}
    /\ now = 1
    /\ txOwner = NoProc
    /\ txBackup = EmptyTables
    /\ pc = [p \in Procs |-> "idle"]
    /\ input = [p \in Procs |-> NoInput]
    /\ job = [p \in Procs |-> Threw]
    /\ batch = [p \in Procs |-> 0]
    /\ started = 0
    /\ done = <<>>
    /\ writes = [p \in Procs |-> <<>>]

\* Math.ceil(verses.length / BATCH_SIZE)
TotalBatches(verseList) == (Len(verseList) + BATCH_SIZE - 1) \div BATCH_SIZE

\* verses.slice(i * BATCH_SIZE, (i + 1) * BATCH_SIZE)
BatchSlice(verseList, i) ==
    SubSeq(verseList, i * BATCH_SIZE + 1,
           IF (i + 1) * BATCH_SIZE < Len(verseList)
           THEN (i + 1) * BATCH_SIZE ELSE Len(verseList))

\* the record of an import that has ended
Ended(p, in, decoded, outcome, ops, before, partial, after) ==
    [proc |-> p, input |-> in, job |-> decoded, outcome |-> outcome,
     writes |-> ops, before |-> before, partial |-> partial, after |-> after]

\* processBibleBuffer(buffer, onProgress, originalFileName) up to the call of
\* db.transaction, or to the exception that ends it
Start(p, in) ==
    /\ pc[p] = "idle"
    /\ started < MaxImports
    /\ LET decoded == processBibleBuffer(in.buffer, in.originalFileName, now)
       IN  /\ input' = [input EXCEPT ![p] = in]
           /\ job' = [job EXCEPT ![p] = decoded]
           /\ IF decoded.threw
              THEN /\ pc' = pc
                   /\ done' = Append(done, Ended(p, in, decoded, "threw", <<>>,
                                                 Tables, Tables, Tables))
              ELSE /\ pc' = [pc EXCEPT ![p] = "queued"]
                   /\ done' = done
    /\ now' = now + 1
    /\ started' = started + 1
    /\ batch' = [batch EXCEPT ![p] = 0]
    /\ writes' = [writes EXCEPT ![p] = <<>>]
    /\ UNCHANGED <<versions, books, verses, txOwner, txBackup>>

\* a transaction that does not wait for the one in progress
BeginUnlocked(p) ==
    /\ pc[p] = "queued"
    /\ txOwner' = p
    /\ txBackup' = Tables
    /\ pc' = [pc EXCEPT ![p] = "put"]
    /\ UNCHANGED <<versions, books, verses, now, input, job, batch, started, done,
                   writes>>

\* db.transaction("readwrite", [db.versions, db.verses, db.books], ...)
Begin(p) ==
    /\ pc[p] = "queued"
    /\ txOwner = NoProc
    /\ txOwner' = p
    /\ txBackup' = Tables
    /\ pc' = [pc EXCEPT ![p] = "put"]
    /\ UNCHANGED <<versions, books, verses, now, input, job, batch, started, done,
                   writes>>

\* a rejection that ends the import and undoes nothing
AbortKeepsWrites(p, op) ==
    /\ txOwner' = NoProc
    /\ pc' = [pc EXCEPT ![p] = "idle"]
    /\ writes' = [writes EXCEPT ![p] = Append(@, op)]
    /\ done' = Append(done, Ended(p, input[p], job[p], "rejected",
                                  Append(writes[p], op), txBackup, Tables, Tables))
    /\ UNCHANGED <<versions, books, verses, now, txBackup, input, job, batch,
                   started>>

\* the transaction of p ends because its scope function rejected
Abort(p, op) ==
    /\ versions' = txBackup.versions
    /\ books' = txBackup.books
    /\ verses' = txBackup.verses
    /\ txOwner' = NoProc
    /\ pc' = [pc EXCEPT ![p] = "idle"]
    /\ writes' = [writes EXCEPT ![p] = Append(@, op)]
    /\ done' = Append(done, Ended(p, input[p], job[p], "rejected",
                                  Append(writes[p], op), txBackup, Tables, txBackup))
    /\ UNCHANGED <<now, txBackup, input, job, batch, started>>

\* await db.versions.put(version)
PutVersion(p) ==
    /\ pc[p] = "put"
    /\ versions' = Put(versions, job[p].version)
    /\ pc' = [pc EXCEPT ![p] = "deleteBooks"]
    /\ writes' = [writes EXCEPT ![p] = Append(@, "putVersion")]
    /\ UNCHANGED <<books, verses, now, txOwner, txBackup, input, job, batch, started,
                   done>>

\* a deletion of the books that is not followed by that of the verses
DeleteBooksOnly(p) ==
    /\ pc[p] = "deleteBooks"
    /\ books' = DeleteWhereVersion(books, job[p].version.id)
    /\ pc' = [pc EXCEPT ![p] = "addBooks"]
    /\ writes' = [writes EXCEPT ![p] = Append(@, "deleteBooks")]
    /\ UNCHANGED <<versions, verses, now, txOwner, txBackup, input, job, batch,
                   started, done>>

\* await db.books.where("version").equals(version.id).delete()
DeleteBooks(p) ==
    /\ pc[p] = "deleteBooks"
    /\ books' = DeleteWhereVersion(books, job[p].version.id)
    /\ pc' = [pc EXCEPT ![p] = "deleteVerses"]
    /\ writes' = [writes EXCEPT ![p] = Append(@, "deleteBooks")]
    /\ UNCHANGED <<versions, verses, now, txOwner, txBackup, input, job, batch,
                   started, done>>

\* await db.verses.where("version").equals(version.id).delete()
DeleteVerses(p) ==
    /\ pc[p] = "deleteVerses"
    /\ verses' = DeleteWhereVersion(verses, job[p].version.id)
    /\ pc' = [pc EXCEPT ![p] = "addBooks"]
    /\ writes' = [writes EXCEPT ![p] = Append(@, "deleteVerses")]
    /\ UNCHANGED <<versions, books, now, txOwner, txBackup, input, job, batch,
                   started, done>>

\* if (books.length > 0) await db.books.bulkAdd(books)
AddBooks(p) ==
    /\ pc[p] = "addBooks"
    /\ IF job[p].books = <<>>
       THEN /\ pc' = [pc EXCEPT ![p] = "addVerses"]
            /\ UNCHANGED <<versions, books, verses, now, txOwner, txBackup, input,
                           job, batch, started, done, writes>>
       ELSE IF BulkAddRejects(books, job[p].books)
       THEN Abort(p, "addBooks")
       ELSE /\ books' = BulkAdd(books, job[p].books)
            /\ pc' = [pc EXCEPT ![p] = "addVerses"]
            /\ writes' = [writes EXCEPT ![p] = Append(@, "addBooks")]
            /\ UNCHANGED <<versions, verses, now, txOwner, txBackup, input, job,
                           batch, started, done>>

\* one turn of the loop: await db.verses.bulkAdd(batch)
AddVerses(p) ==
    /\ pc[p] = "addVerses"
    /\ batch[p] < TotalBatches(job[p].verses)
    /\ LET slice == BatchSlice(job[p].verses, batch[p])
       IN  IF BulkAddRejects(verses, slice)
           THEN Abort(p, "addVerses")
           ELSE /\ verses' = BulkAdd(verses, slice)
                /\ batch' = [batch EXCEPT ![p] = @ + 1]
                /\ writes' = [writes EXCEPT ![p] = Append(@, "addVerses")]
                /\ UNCHANGED <<versions, books, now, txOwner, txBackup, pc, input,
                               job, started, done>>

\* the loop is over: the scope function returns and the transaction commits
Commit(p) ==
    /\ pc[p] = "addVerses"
    /\ batch[p] = TotalBatches(job[p].verses)
    /\ txOwner' = NoProc
    /\ pc' = [pc EXCEPT ![p] = "idle"]
    /\ done' = Append(done, Ended(p, input[p], job[p], "ok", writes[p],
                                  txBackup, Tables, Tables))
    /\ UNCHANGED <<versions, books, verses, now, txBackup, input, job, batch,
                   started, writes>>

ImportNext ==
    \E p \in Procs :
        \/ \E in \in Inputs : Start(p, in)
        \/ Begin(p)
        \/ PutVersion(p)
        \/ DeleteBooks(p)
        \/ DeleteVerses(p)
        \/ AddBooks(p)
        \/ AddVerses(p)
        \/ Commit(p)



-----------------------------------------------------------------------------
(* performBatchImport run to its end on given tables with no other import  *)
(* in between: the tables it leaves.                                       *)

RECURSIVE AddBatches(_, _, _)
\* the verses table after batches i, i + 1, ... ; <<>> stands for a rejection
AddBatches(table, verseList, i) ==
    IF i >= TotalBatches(verseList) THEN <<table>>
    ELSE IF BulkAddRejects(table, BatchSlice(verseList, i)) THEN <<>>
    ELSE AddBatches(BulkAdd(table, BatchSlice(verseList, i)), verseList, i + 1)

performBatchImport(tables, decoded) ==
    LET id == decoded.version.id
        booksLeft == DeleteWhereVersion(tables.books, id)
        versesLeft == DeleteWhereVersion(tables.verses, id)
        added == AddBatches(versesLeft, decoded.verses, 0)
    IN  IF \/ decoded.books # <<>> /\ BulkAddRejects(booksLeft, decoded.books)
           \/ added = <<>>
        THEN tables
        ELSE [versions |-> Put(tables.versions, decoded.version),
              books |-> BulkAdd(booksLeft, decoded.books),
              verses |-> added[1]]

\* the records of a table that carry version id: what the importer deletes
\* by and what a lookup of that version reads
Under(id, table) == {r \in table : r.version = id}

\* a version record without its timestamp
Untimed(v) == [k \in DOMAIN v \ {"lastUpdated"} |-> v[k]]
UntimedTables(t) ==
    [versions |-> {Untimed(v) : v \in t.versions}, books |-> t.books,
     verses |-> t.verses]

EndedOk == {i \in DOMAIN done : done[i].outcome = "ok"}

-----------------------------------------------------------------------------
(* C1  Full replace.  When an import of version id V has committed, the    *)
(* books and the verses stored under V are exactly the book and verse      *)
(* records of that import, and no record that an earlier import of V       *)
(* stored and that is absent from the new input is left.                   *)

FullReplace ==
    \A j \in EndedOk :
        LET e == done[j]
            id == e.job.version.id
        IN  /\ Under(id, e.after.verses) = Range(e.job.verses)
            /\ Under(id, e.after.books) = Range(e.job.books)
            /\ \A i \in EndedOk :
                   (i < j /\ done[i].job.version.id = id) =>
                       /\ (Range(done[i].job.verses) \ Range(e.job.verses))
                              \cap e.after.verses = {}
                       /\ (Range(done[i].job.books) \ Range(e.job.books))
                              \cap e.after.books = {}

-----------------------------------------------------------------------------
(* C2  Idempotence.  Importing a document that was just imported with      *)
(* success once more succeeds and leaves the tables as the first import    *)
(* left them, the version record's timestamp apart.                        *)

Idempotent ==
    \A i \in EndedOk :
        \A j \in DOMAIN done :
            (j = i + 1 /\ done[j].input = done[i].input
                       /\ done[j].before = done[i].after)
            => /\ done[j].outcome = "ok"
               /\ UntimedTables(done[j].after) = UntimedTables(done[i].after)

-----------------------------------------------------------------------------
(* C3  Round trip.  After a JSON document with N verse rows was imported,  *)
(* the store holds exactly N verse records under the computed version id,  *)
(* each under the key built from that id and the row's bookId, chapter     *)
(* and verse.                                                              *)

\* the rows of an import that went through importFromJson
JsonRowsOf(e) ==
    LET data == e.input.buffer.content.data
    IN  data.verses.items

IsJsonImport(e) ==
    /\ ~e.input.buffer.zip
    /\ e.input.buffer.content.syntax = "json"
    /\ e.input.originalFileName = NoFileName
    /\ ~e.job.threw

RoundTrip ==
    \A i \in EndedOk :
        LET e == done[i]
            id == e.job.version.id
        IN  IsJsonImport(e) =>
                /\ Cardinality(Under(id, e.after.verses)) = Len(JsonRowsOf(e))
                /\ \A k \in DOMAIN JsonRowsOf(e) :
                       LET row == JsonRowsOf(e)[k]
                       IN  \E r \in Under(id, e.after.verses) :
                               r.pk = VersePk(id, row.bookId, row.chapter, row.verse)

-----------------------------------------------------------------------------
(* C4  Decode failures.  An import of a corrupt archive, of an archive     *)
(* with no .json or .xml entry, of malformed JSON or of JSON whose verses  *)
(* is missing or no array ends in an error and has issued no store         *)
(* operation.                                                              *)

ArchiveWithoutEntry(in) ==
    /\ in.buffer.zip
    /\ \A k \in DOMAIN in.buffer.entries :
           /\ ~EndsWith(in.buffer.entries[k].name, DotJson)
           /\ ~EndsWith(in.buffer.entries[k].name, DotXml)

\* bytes that are no archive and no JSON or XML text either
CorruptArchive(in) == ~in.buffer.zip /\ in.buffer.content.syntax = "garbage"

MalformedJson(in) == ~in.buffer.zip /\ in.buffer.content.syntax = "badjson"

VersesNotIterable(in) ==
    /\ ~in.buffer.zip
    /\ in.buffer.content.syntax = "json"
    /\ \/ ~Has(in.buffer.content.data, "verses")
       \/ in.buffer.content.data.verses.type # "array"

DecodingFails(in) ==
    \/ ArchiveWithoutEntry(in)
    \/ CorruptArchive(in)
    \/ MalformedJson(in)
    \/ VersesNotIterable(in)

DecodeFailureLeavesStore ==
    \A i \in DOMAIN done :
        DecodingFails(done[i].input) =>
            /\ done[i].outcome # "ok"
            /\ done[i].writes = <<>>
            /\ done[i].after = done[i].before

-----------------------------------------------------------------------------
(* C5  Failure while inserting verses.                                     *)

RejectedInVerses ==
    {i \in DOMAIN done :
        /\ done[i].outcome = "rejected"
        /\ done[i].writes[Len(done[i].writes)] = "addVerses"}

\* C5 as stated: the version record, the books and the batches inserted
\* before the failure remain, and the previous data is not restored
PartialWriteRemains ==
    \A i \in RejectedInVerses :
        LET e == done[i]
        IN  /\ e.job.version \in e.after.versions
            /\ Range(e.job.books) \subseteq e.after.books
            /\ e.after.verses = e.partial.verses

\* C5 as amended: the rejection aborts the transaction; what was written in it
\* (the version record, the books, the earlier batches) is undone and the
\* tables are those of before the import, previous data of the id included
RejectionRollsBack ==
    \A i \in DOMAIN done :
        done[i].outcome = "rejected" =>
            LET e == done[i]
            IN  /\ e.after = e.before
                /\ e.job.version \in e.partial.versions
                /\ Under(e.job.version.id, e.partial.verses)
                       \subseteq Range(e.job.verses)

\* a verse batch was rejected after the version record and an earlier batch
\* had been written over previous data of the same id
RejectionWitness ==
    \E i \in RejectedInVerses :
        LET e == done[i]
        IN  /\ Under(e.job.version.id, e.before.verses) # {}
            /\ Under(e.job.version.id, e.partial.verses) # {}
            /\ e.partial.verses # e.before.verses
            /\ verses = e.before.verses

-----------------------------------------------------------------------------
(* C6  Empty corpus.  An import whose decoding yields no verse ends in an  *)
(* error and writes no version record.                                     *)

EmptyCorpusRejected ==
    \A i \in DOMAIN done :
        (~done[i].job.threw /\ done[i].job.verses = <<>>) =>
            /\ done[i].outcome # "ok"
            /\ \A k \in DOMAIN done[i].writes : done[i].writes[k] # "putVersion"

-----------------------------------------------------------------------------
(* C7  Imports of different version ids are independent: when two imports  *)
(* of different ids have ended, the version record, the books and the      *)
(* verses of each id are those the import of that id leaves when it runs   *)
(* alone.                                                                  *)

ContentOf(id, t) ==
    [versions |-> {Untimed(v) : v \in {w \in t.versions : w.id = id}},
     books |-> Under(id, t.books), verses |-> Under(id, t.verses)]

Alone(decoded) == performBatchImport(EmptyTables, decoded)

TwoEnded(i, j) ==
    /\ i \in DOMAIN done /\ j \in DOMAIN done
    /\ done[i].proc # done[j].proc
    /\ ~done[i].job.threw /\ ~done[j].job.threw
    /\ Len(done) = 2

DifferentIdsIndependent ==
    \A i, j \in DOMAIN done :
        (TwoEnded(i, j) /\ done[i].job.version.id # done[j].job.version.id) =>
            ContentOf(done[i].job.version.id, Tables)
                = ContentOf(done[i].job.version.id, Alone(done[i].job))

-----------------------------------------------------------------------------
(* C8  Two imports of the same version id.                                 *)

InTransaction(p) ==
    pc[p] \in {"put", "deleteBooks", "deleteVerses", "addBooks", "addVerses"}

SameIdPending(p, q) ==
    /\ p # q
    /\ InTransaction(p)
    /\ pc[q] = "queued"
    /\ job[p].version.id = job[q].version.id

\* C8 as stated: the delete-then-insert sequence is not isolated, so an import
\* of the same id takes its own store steps while another is inside it
NotIsolated ==
    \A p, q \in Procs : SameIdPending(p, q) => ENABLED Begin(q)

\* C8 as amended: the transaction isolates the sequence.  No two imports are
\* inside it at once, and when two imports of one id have ended the content
\* of that id is what one of them leaves when it runs alone
SameIdSerialized ==
    /\ \A p, q \in Procs : (InTransaction(p) /\ InTransaction(q)) => p = q
    /\ \A p \in Procs : InTransaction(p) => txOwner = p
    /\ \A i, j \in DOMAIN done :
           (TwoEnded(i, j) /\ done[i].job.version.id = done[j].job.version.id
                           /\ txOwner = NoProc) =>
               \E k \in {i, j} :
                   ContentOf(done[i].job.version.id, Tables)
                       = ContentOf(done[i].job.version.id, Alone(done[k].job))

\* an import is waiting for the transaction of another import of the same
\* id that has deleted the old verses and is inserting its own
SameIdWitness ==
    \E p, q \in Procs :
        /\ SameIdPending(p, q)
        /\ pc[p] = "addVerses"
        /\ batch[p] > 0
        /\ job[p].verses # job[q].verses


-----------------------------------------------------------------------------
(*                     Part II: the reference input                        *)
(* Texts are sequences of one-character strings, as in Part I.             *)

MaxValueLen == 6

\* the props availableBooks and availableVersions of ScriptureInput
availableBooks ==
    << [name |-> <<"J", "o", "b">>, id |-> <<"j", "o", "b">>,
        abbreviation |-> <<"J", "b">>, chapters |-> 3],
       [name |-> <<"1", " ", "J", "n">>, id |-> <<"1", "j", "n">>,
        abbreviation |-> <<"1", "J", "n">>, chapters |-> 2],
       [name |-> <<"J", "u", "d", "e">>, id |-> <<"j", "u", "d">>, chapters |-> 1],
       \* eight books that the query "x" matches: six by name, two of them of
       \* one name, one by id only and one by abbreviation only
       [name |-> <<"X", "e">>, id |-> <<"x", "e">>, chapters |-> 1],
       [name |-> <<"A", "d">>, id |-> <<"x", "a", "d">>, chapters |-> 1],
       [name |-> <<"X", "c">>, id |-> <<"x", "c">>, chapters |-> 1],
       [name |-> <<"X", "c">>, id |-> <<"x", "c", "2">>, chapters |-> 1],
       [name |-> <<"X", "b">>, id |-> <<"x", "b">>, chapters |-> 1],
       [name |-> <<"X", "a">>, id |-> <<"x", "a">>, chapters |-> 1],
       [name |-> <<"X", "f">>, id |-> <<"x", "f">>, chapters |-> 1],
       [name |-> <<"A", "c">>, id |-> <<"a", "c">>,
        abbreviation |-> <<"X", "a", "c">>, chapters |-> 1] >>

availableVersions ==
    << [code |-> <<"K", "J", "V">>, name |-> "King James"],
       [code |-> <<"N", "K", "J", "V">>, name |-> "New King James"] >>

\* s.startsWith(prefix)
StartsWith(s, prefix) ==
    Len(prefix) <= Len(s) /\ SubSeq(s, 1, Len(prefix)) = prefix

\* s.endsWith(" ")
EndsWithSpace(s) == s # <<>> /\ s[Len(s)] = " "

\* s.split(/\s+/)
RECURSIVE SplitSpaces(_)
SplitSpaces(s) ==
    LET cut == CHOOSE i \in 1..(Len(s) + 1) :
                   /\ i = Len(s) + 1 \/ IsSpace(s[i])
                   /\ \A j \in 1..(i - 1) : ~IsSpace(s[j])
    IN  IF cut = Len(s) + 1 THEN <<s>>
        ELSE <<SubSeq(s, 1, cut - 1)>>
                 \o SplitSpaces(TrimStart(SubSeq(s, cut, Len(s))))

LetterSet == Range(UpperChars) \cup Range(LowerChars)
IsLetter(c) == c \in LetterSet
AllDigits(s) == \A i \in DOMAIN s : IsDigit(s[i])

\* `${n}` as characters
RECURSIVE DigitsOf(_)
DigitsOf(n) ==
    IF n < 10 THEN <<Digits[n + 1]>>
    ELSE DigitsOf(n \div 10) \o <<Digits[(n % 10) + 1]>>
NumberChars(n) == IF n = NaN THEN <<"N", "a", "N">> ELSE DigitsOf(n)

\* /^([1-3]?\s*[A-Za-z\s]+)\s+(\d+)\s$/i matched against input: the book
\* phrase match[1] and the digits match[2], or <<>> when there is no match
SmartMatch(text) ==
    LET n == Len(text)
        \* where the digits before the last character begin
        from == IF n < 2 THEN n
                ELSE CHOOSE i \in 1..n :
                         /\ \A j \in i..(n - 1) : IsDigit(text[j])
                         /\ i = 1 \/ ~IsDigit(text[i - 1])
        digits == SubSeq(text, from, n - 1)
        phrase == SubSeq(text, 1, from - 2)
        letters == IF phrase # <<>> /\ phrase[1] \in {"1", "2", "3"}
                   THEN Tail(phrase) ELSE phrase
    IN  IF /\ n >= 3
           /\ IsSpace(text[n])
           /\ digits # <<>>
           /\ from >= 3
           /\ IsSpace(text[from - 1])
           /\ letters # <<>>
           /\ \A i \in DOMAIN letters : IsLetter(letters[i]) \/ IsSpace(letters[i])
        THEN <<phrase, digits>>
        ELSE <<>>

getSmartTransform(text) ==
    LET match == SmartMatch(text)
    IN  IF match # <<>>
        THEN Trim(match[1]) \o <<" ">> \o match[2] \o <<":">>
        ELSE text

\* a match of whole names only
BookStartsWithWhole(b, search) == ToLowerCase(b.name) = search

\* b.name.toLowerCase().startsWith(search) || b.id.toLowerCase()
\*     .startsWith(search) || b.abbreviation?.toLowerCase().startsWith(search)
BookStartsWith(b, search) ==
    \/ StartsWith(ToLowerCase(b.name), search)
    \/ StartsWith(ToLowerCase(b.id), search)
    \/ Has(b, "abbreviation") /\ StartsWith(ToLowerCase(b.abbreviation), search)

\* /^[1-3]$/.test(parts[0])
IsIntroNum(parts) == parts[1] \in {<<"1">>, <<"2">>, <<"3">>}

\* the book phrase and the tokens after it, as handleChange takes them
BookPart(parts) ==
    IF IsIntroNum(parts) /\ Len(parts) > 1
    THEN parts[1] \o <<" ">> \o parts[2]
    ELSE parts[1]

RemainingParts(parts) ==
    IF IsIntroNum(parts) /\ Len(parts) > 1 THEN SubSeq(parts, 3, Len(parts))
    ELSE IF IsIntroNum(parts) THEN <<>>
    ELSE SubSeq(parts, 2, Len(parts))

\* matchingBooks of handleChange, of the books the component was given
MatchingBooksIn(bookList, parts) ==
    SelectSeq(bookList,
              LAMBDA b : BookStartsWith(b, ToLowerCase(BookPart(parts))))

MatchingBooks(parts) == MatchingBooksIn(availableBooks, parts)

\* Math.max(...matchingBooks.map((b) => b.chapters))
MaxChaptersPossible(matching) ==
    CHOOSE m \in {matching[i].chapters : i \in DOMAIN matching} :
        \A i \in DOMAIN matching : matching[i].chapters <= m

\* the reasons for which handleChange returns without setting the value

\* a validator that lets every book phrase pass
NoBookRefused(parts) == FALSE

NoBookMatches(parts) == MatchingBooks(parts) = <<>>

\* the reference token, or <<>> when the book phrase has not ended
RefPart(val, parts) ==
    IF /\ \/ RemainingParts(parts) # <<>>
          \/ EndsWithSpace(val) /\ ~IsIntroNum(parts) /\ Len(parts) = 1
       /\ RemainingParts(parts) # <<>>
    THEN RemainingParts(parts)[1]
    ELSE <<>>

\* a chapter rule that refuses the last chapter too
ChapterBlockedAtMax(val, parts) ==
    LET refPart == RefPart(val, parts)
        chapterStr == Split(refPart, ":")[1]
    IN  /\ refPart # <<>>
        /\ chapterStr # <<>>
        /\ IF AllDigits(chapterStr)
           THEN \/ ParseInt(chapterStr) >= MaxChaptersPossible(MatchingBooks(parts))
                \/ ParseInt(chapterStr) = 0 /\ Len(chapterStr) = 1
           ELSE TRUE

ChapterBlocked(val, parts) ==
    LET refPart == RefPart(val, parts)
        chapterStr == Split(refPart, ":")[1]
    IN  /\ refPart # <<>>
        /\ chapterStr # <<>>
        /\ IF AllDigits(chapterStr)
           THEN \/ ParseInt(chapterStr) > MaxChaptersPossible(MatchingBooks(parts))
                \/ ParseInt(chapterStr) = 0 /\ Len(chapterStr) = 1
           ELSE TRUE

VerseBlocked(val, parts) ==
    LET refPart == RefPart(val, parts)
        split == Split(refPart, ":")
    IN  /\ refPart # <<>>
        /\ Len(split) >= 2
        /\ \E i \in DOMAIN split[2] : ~IsDigit(split[2][i]) /\ split[2][i] # "-"

VersionBlocked(val, parts) ==
    LET remainingParts == RemainingParts(parts)
        versionPart == remainingParts[Len(remainingParts)]
    IN  /\ \/ Len(remainingParts) >= 2
           \/ Len(remainingParts) >= 1 /\ EndsWithSpace(val)
        /\ versionPart # <<>>
        /\ ~\E i \in DOMAIN availableVersions :
               StartsWith(ToLowerCase(availableVersions[i].code),
                          ToLowerCase(versionPart))

\* !/^[A-Za-z0-9\s:.-]*$/.test(transformedVal)
NotWhitelisted(val) ==
    \E i \in DOMAIN val :
        ~(IsLetter(val[i]) \/ IsDigit(val[i]) \/ IsSpace(val[i])
              \/ val[i] \in {":", ".", "-"})

\* the candidate value is refused: one of the returns of handleChange that
\* set nothing
Blocked(val) ==
    LET parts == SplitSpaces(TrimStart(val))
    IN  \/ NoBookMatches(parts)
        \/ ChapterBlocked(val, parts)
        \/ VerseBlocked(val, parts)
        \/ VersionBlocked(val, parts)
        \/ NotWhitelisted(val)

\* inline autocomplete: the value handleChange sets for a validated value
Completed(oldVal, val) ==
    LET parts == SplitSpaces(TrimStart(val))
        matching == MatchingBooks(parts)
        isBookTypingDone == \/ IsIntroNum(parts) /\ Len(parts) > 2
                            \/ ~IsIntroNum(parts) /\ Len(parts) > 1
        uniqueNames == {matching[i].name : i \in DOMAIN matching}
        completedValue == matching[1].name \o <<" ">>
    IN  IF /\ Len(val) > Len(oldVal)
           /\ ~isBookTypingDone
           /\ Cardinality(uniqueNames) = 1
           /\ Len(completedValue) > Len(val)
        THEN completedValue
        ELSE val

\* a validator that checks a shorter value like any other
handleChangeChecksDeletions(oldVal, rawNewVal) ==
    IF Blocked(getSmartTransform(rawNewVal))
    THEN [applied |-> FALSE, value |-> oldVal]
    ELSE [applied |-> TRUE,
          value |-> Completed(oldVal, getSmartTransform(rawNewVal))]

\* handleChange as a function of the value of the last render and the value
\* of the change event: whether a value is set, and which
handleChange(oldVal, rawNewVal) ==
    IF Len(rawNewVal) < Len(oldVal)
    THEN [applied |-> TRUE, value |-> rawNewVal]
    ELSE LET transformedVal == getSmartTransform(rawNewVal)
         IN  IF Blocked(transformedVal)
             THEN [applied |-> FALSE, value |-> oldVal]
             ELSE [applied |-> TRUE, value |-> Completed(oldVal, transformedVal)]

-----------------------------------------------------------------------------
(* getSuggestions                                                          *)

\* a.localeCompare(b) at the first level of the collation: punctuation,
\* digits, letters without their case
CollationOrder == <<" ", "!", "-", ".", ":">> \o Digits \o LowerChars
CollationKeyOf == [c \in Range(CollationOrder) |->
                      CHOOSE i \in DOMAIN CollationOrder : CollationOrder[i] = c]
CollationKey(c) ==
    IF Lower(c) \in DOMAIN CollationKeyOf THEN CollationKeyOf[Lower(c)] ELSE 0

RECURSIVE localeCompare(_, _)
localeCompare(a, b) ==
    IF a = <<>> /\ b = <<>> THEN 0
    ELSE IF a = <<>> THEN 0 - 1
    ELSE IF b = <<>> THEN 1
    ELSE IF CollationKey(Head(a)) < CollationKey(Head(b)) THEN 0 - 1
    ELSE IF CollationKey(Head(a)) > CollationKey(Head(b)) THEN 1
    ELSE localeCompare(Tail(a), Tail(b))

\* a comparator that knows the names only
CompareBooksByName(a, b, bookSearch) == localeCompare(a.name, b.name)

\* the comparator of matchedBooks.sort
CompareBooks(a, b, bookSearch) ==
    LET aStarts == StartsWith(ToLowerCase(a.name), bookSearch)
        bStarts == StartsWith(ToLowerCase(b.name), bookSearch)
    IN  IF aStarts /\ ~bStarts THEN 0 - 1
        ELSE IF ~aStarts /\ bStarts THEN 1
        ELSE localeCompare(a.name, b.name)

\* Array.prototype.sort, which is stable
RECURSIVE SortBooks(_, _)
SortBooks(list, bookSearch) ==
    IF list = <<>> THEN <<>>
    ELSE LET front == SortBooks(SubSeq(list, 1, Len(list) - 1), bookSearch)
             b == list[Len(list)]
             at == CHOOSE i \in 1..(Len(front) + 1) :
                       /\ \A j \in 1..(i - 1) :
                              CompareBooks(front[j], b, bookSearch) <= 0
                       /\ i = Len(front) + 1
                              \/ CompareBooks(front[i], b, bookSearch) > 0
         IN  SubSeq(front, 1, at - 1) \o <<b>> \o SubSeq(front, at, Len(front))

\* the first book of each name
UniqueBooks(sorted) ==
    SelectSeq([i \in DOMAIN sorted |->
                  [book |-> sorted[i],
                   first |-> \A j \in 1..(i - 1) : sorted[j].name # sorted[i].name]],
              LAMBDA e : e.first)

Slice5(list) == SubSeq(list, 1, IF Len(list) < 5 THEN Len(list) ELSE 5)

\* text.substring(0, text.lastIndexOf(" ") + 1)
UpToLastSpace(text) ==
    LET spaces == {i \in DOMAIN text : text[i] = " "}
    IN  IF spaces = {} THEN <<>>
        ELSE SubSeq(text, 1, CHOOSE i \in spaces : \A j \in spaces : j <= i)

BookSuggestions(matchedBooks, bookSearch) ==
    LET uniqueBooks == Slice5(UniqueBooks(SortBooks(matchedBooks, bookSearch)))
    IN  [i \in DOMAIN uniqueBooks |->
            [text |-> uniqueBooks[i].book.name, type |-> "book"]]

VersionSuggestionsOf(versionList, text, remaining) ==
    LET versionSearch == IF Len(remaining) >= 2
                         THEN ToLowerCase(remaining[Len(remaining)]) ELSE <<>>
        prefix == IF Len(remaining) >= 2 THEN UpToLastSpace(text) ELSE text
        matches == SelectSeq(versionList,
                       LAMBDA v : StartsWith(ToLowerCase(v.code), versionSearch))
    IN  [i \in DOMAIN matches |->
            [text |-> prefix \o matches[i].code, type |-> "version",
             description |-> matches[i].name]]

VerseSuggestions(book, refPart) ==
    LET split == Split(refPart, ":")
        chapter == ParseInt(split[1])
        verseStr == split[2]
        parsedV == ParseInt(verseStr)
        startVerse == IF parsedV # NaN /\ parsedV > 0 THEN parsedV ELSE 1
    IN  IF "-" \in Range(verseStr) THEN <<>>
        ELSE [i \in 1..5 |->
                 [text |-> book.name \o <<" ">> \o NumberChars(chapter) \o <<":">>
                               \o NumberChars(startVerse + i - 1),
                  type |-> "verse"]]

ChapterSuggestions(book, refPart) ==
    LET chapterSearch == ParseInt(refPart)
    IN  IF chapterSearch = NaN THEN <<>>
        ELSE [i \in 1..5 |->
                 [text |-> book.name \o <<" ">> \o NumberChars(chapterSearch)
                               \o (IF i = 1 THEN <<>> ELSE NumberChars(i - 1)),
                  type |-> "chapter"]]

\* the book phrase of getSuggestions and the tokens after it (lines 24-33)
TwoWords(parts) ==
    /\ parts[1] \in {<<"1">>, <<"2">>, <<"3">>}
    /\ Len(parts) >= 2
    /\ parts[2] # <<>>

BookStr(parts) ==
    IF TwoWords(parts) THEN parts[1] \o <<" ">> \o parts[2] ELSE parts[1]

Remaining(parts) ==
    IF TwoWords(parts) THEN SubSeq(parts, 3, Len(parts))
    ELSE SubSeq(parts, 2, Len(parts))

\* matchedBooks of getSuggestions, of the books it was given
MatchedBooks(bookList, text) ==
    SelectSeq(bookList,
              LAMBDA b : BookStartsWith(b,
                  ToLowerCase(BookStr(SplitSpaces(TrimStart(text))))))

\* the test of line 72
VersionPhase(text, remaining) ==
    \/ Len(remaining) >= 2
    \/ Len(remaining) >= 1 /\ EndsWithSpace(text)

\* getSuggestions(input, availableBooks, availableVersions)
getSuggestionsOf(text, bookList, versionList) ==
    LET trimInput == TrimStart(text)
        parts == SplitSpaces(trimInput)
        remaining == Remaining(parts)
        bookSearch == ToLowerCase(BookStr(parts))
        matchedBooks == MatchedBooks(bookList, text)
        book == matchedBooks[1]
        refPart == IF remaining # <<>> THEN remaining[1] ELSE <<>>
    IN  IF trimInput = <<>> THEN <<>>
        ELSE IF remaining = <<>> /\ ~EndsWithSpace(text)
        THEN BookSuggestions(matchedBooks, bookSearch)
        ELSE IF matchedBooks = <<>> THEN <<>>
        ELSE IF /\ VersionPhase(text, remaining)
                /\ VersionSuggestionsOf(versionList, text, remaining) # <<>>
        THEN VersionSuggestionsOf(versionList, text, remaining)
        ELSE IF ":" \in Range(refPart) THEN VerseSuggestions(book, refPart)
        ELSE IF refPart # <<>> THEN ChapterSuggestions(book, refPart)
        ELSE IF EndsWithSpace(text)
        THEN <<[text |-> book.name \o <<" ", "1">>, type |-> "chapter"]>>
        ELSE <<>>

\* getSuggestions as updateSuggestions calls it, with the props of the input
getSuggestions(text) == getSuggestionsOf(text, availableBooks, availableVersions)

-----------------------------------------------------------------------------
(* ScriptureInput                                                          *)

\* what a change event can carry: the value with one character more, the
\* value with its last character deleted, or a text put in as a whole
Keys == {"j", "o", "1", "9", " ", ":", "k", "!"}
Pastes ==
    { <<"z", "!">>,
      <<"J", "b", " ", "3", " ">>,
      <<"J", "b", " ", "4">> }
\* the keys of an input that is typed into, end to end
TypingKeys == Keys \cup {"b", "n", "u", "d", "e", "3", "-", "V"}

Candidates(old) ==
    {old \o <<c>> : c \in Keys}
        \cup (IF old = <<>> THEN {} ELSE {SubSeq(old, 1, Len(old) - 1)})
        \cup Pastes

Handled(name, raw) == [name |-> name, raw |-> raw, value |-> value]

InputInit ==
    /\ value = <<>>
    /\ suggestions = <<>>
    /\ selectedIndex = 0
    /\ showDropdown = FALSE
    /\ pending = <<>>
    /\ event = [name |-> "mount", raw |-> <<>>, value |-> <<>>]

\* a recomputation that takes the value of the last render
updateSuggestionsStale(val) == pending' = Append(pending, value)

\* updateSuggestions(val) up to its await
updateSuggestions(val) == pending' = Append(pending, val)

\* An event handler is a task of the event loop.  getSuggestions awaits
\* nothing, so what follows `await getSuggestions(...)` runs as a microtask
\* when the handler that called it has returned, before the next task.
Idle == pending = <<>>

\* a handler that recomputes the suggestions for a refused value too
ChangeAlwaysUpdates(raw) ==
    /\ Len(raw) <= MaxValueLen
    /\ Idle
    /\ value' = handleChange(value, raw).value
    /\ updateSuggestions(handleChange(value, raw).value)
    /\ event' = Handled("change", raw)
    /\ UNCHANGED <<suggestions, selectedIndex, showDropdown>>

\* onChange of the input
Change(raw) ==
    /\ Len(raw) <= MaxValueLen
    /\ Idle
    /\ LET decision == handleChange(value, raw)
       IN  IF decision.applied
           THEN /\ value' = decision.value
                /\ updateSuggestions(decision.value)
           ELSE UNCHANGED <<value, pending>>
    /\ event' = Handled("change", raw)
    /\ UNCHANGED <<suggestions, selectedIndex, showDropdown>>

\* updateSuggestions after its await
SetSuggestions ==
    /\ pending # <<>>
    /\ suggestions' = getSuggestions(Head(pending))
    /\ selectedIndex' = 0
    /\ showDropdown' = (getSuggestions(Head(pending)) # <<>>)
    /\ pending' = Tail(pending)
    /\ event' = Handled("suggestions", Head(pending))
    /\ UNCHANGED value

\* handleKeyDown, case "ArrowDown"
ArrowDown ==
    /\ Idle
    /\ showDropdown
    /\ suggestions # <<>>
    /\ selectedIndex' = (selectedIndex + 1) % Len(suggestions)
    /\ event' = Handled("ArrowDown", <<>>)
    /\ UNCHANGED <<value, suggestions, showDropdown, pending>>

\* handleKeyDown, case "Tab": applySuggestion(suggestions[selectedIndex])
Tab ==
    /\ Idle
    /\ showDropdown
    /\ selectedIndex < Len(suggestions)
    /\ Len(suggestions[selectedIndex + 1].text) <= MaxValueLen
    /\ Idle
    /\ value' = suggestions[selectedIndex + 1].text
    /\ showDropdown' = FALSE
    /\ updateSuggestions(suggestions[selectedIndex + 1].text)
    /\ event' = Handled("Tab", <<>>)
    /\ UNCHANGED <<suggestions, selectedIndex>>

\* handleKeyDown, case "Escape"
Escape ==
    /\ Idle
    /\ showDropdown
    /\ showDropdown' = FALSE
    /\ event' = Handled("Escape", <<>>)
    /\ UNCHANGED <<value, suggestions, selectedIndex, pending>>

\* onClick of the clear button, shown while value is not empty.  Its last
\* statement focuses the input; when the click had taken the focus away,
\* onFocus runs inside the handler, with the value of the last render
Clear(refocus) ==
    /\ value # <<>>
    /\ Idle
    /\ value' = <<>>
    /\ pending' = IF refocus THEN <<<<>>, value>> ELSE <<<<>>>>
    /\ event' = Handled("clear", <<>>)
    /\ UNCHANGED <<suggestions, selectedIndex, showDropdown>>

\* onFocus of the input
Focus ==
    /\ Idle
    /\ updateSuggestions(value)
    /\ event' = Handled("focus", <<>>)
    /\ UNCHANGED <<value, suggestions, selectedIndex, showDropdown>>

InputNext ==
    \/ \E raw \in Candidates(value) : Change(raw)
    \/ SetSuggestions
    \/ ArrowDown
    \/ Tab
    \/ Escape
    \/ \E refocus \in BOOLEAN : Clear(refocus)
    \/ Focus

-----------------------------------------------------------------------------
(* Part III.  The pure functions of the reference input, applied to a      *)
(* text: parseReference as the selection of a service item calls it,       *)
(* getSmartTransform and getSuggestions.                                   *)

LetterClass == LetterSet
DigitClass == DigitSet
SpaceClass == {" ", "\t", "\n"}
AlnumClass == LetterClass \cup DigitClass

\* where the longest run of characters of class that begins at s[i] ends:
\* what a greedy `[class]*` consumes from position i (i - 1: nothing)
RunEnd(s, i, class) ==
    IF i > Len(s) THEN i - 1
    ELSE CHOOSE j \in (i - 1)..Len(s) :
             /\ \A k \in i..j : s[k] \in class
             /\ j >= Len(s) \/ s[j + 1] \notin class

\* tokens joined by single spaces
RECURSIVE JoinSpaces(_)
JoinSpaces(tokens) ==
    IF tokens = <<>> THEN <<>>
    ELSE IF Len(tokens) = 1 THEN tokens[1]
    ELSE tokens[1] \o <<" ">> \o JoinSpaces(Tail(tokens))

\* a pattern with no group for the end of a range
ReferenceMatchNoRange(text) ==
    LET parts == SplitSpaces(Trim(text))
        split == Split(parts[Len(parts)], ":")
    IN  IF Len(parts) >= 2 /\ Len(split) = 2 /\ AllDigits(split[1]) /\ AllDigits(split[2])
        THEN <<JoinSpaces(SubSeq(parts, 1, Len(parts) - 1)), split[1], split[2], <<>>, <<>>>>
        ELSE <<>>

\* input.trim().match(regex) for
\* /^([1-3]?\s*[A-Za-z]+(?:[A-Za-z\s]*))\s+(\d+)(?::\s*(\d+)(?:\s*-\s*(\d+))?)?(?:\s+([A-Za-z0-9]+))?$/i
\* : the groups <<book, chapter, start, end, version>>, a group that took no
\* part being <<>> (undefined), or <<>> when the text does not match (null)
ReferenceMatch(text) ==
    LET s == Trim(text)
        n == Len(s)
        \* [1-3]?\s*[A-Za-z]+
        firstLetter ==
            RunEnd(s, IF n > 0 /\ s[1] \in {"1", "2", "3"} THEN 2 ELSE 1, SpaceClass) + 1
        \* [A-Za-z\s]* takes every letter and space, and gives one space
        \* back to the \s+ that follows group 1
        phraseEnd == RunEnd(s, firstLetter, LetterClass \cup SpaceClass)
        chapterEnd == RunEnd(s, phraseEnd + 1, DigitClass)
        hasColon == chapterEnd < n /\ s[chapterEnd + 1] = ":"
        startFrom == RunEnd(s, chapterEnd + 2, SpaceClass) + 1
        startEnd == RunEnd(s, startFrom, DigitClass)
        dash == RunEnd(s, startEnd + 1, SpaceClass) + 1
        endFrom == RunEnd(s, dash + 1, SpaceClass) + 1
        endEnd == RunEnd(s, endFrom, DigitClass)
        hasRange == /\ hasColon
                    /\ dash <= n
                    /\ s[dash] = "-"
                    /\ endEnd >= endFrom
        refEnd == IF hasRange THEN endEnd ELSE IF hasColon THEN startEnd ELSE chapterEnd
        versionFrom == RunEnd(s, refEnd + 1, SpaceClass) + 1
        versionEnd == RunEnd(s, versionFrom, AlnumClass)
        hasVersion == refEnd < n
    IN  IF /\ firstLetter <= n
           /\ s[firstLetter] \in LetterClass
           /\ IsSpace(s[phraseEnd])
           /\ phraseEnd - 1 >= firstLetter
           /\ chapterEnd > phraseEnd
           /\ hasColon => startEnd >= startFrom
           /\ hasVersion => /\ versionFrom > refEnd + 1
                            /\ versionEnd >= versionFrom
                            /\ versionEnd = n
        THEN << SubSeq(s, 1, phraseEnd - 1),
                SubSeq(s, phraseEnd + 1, chapterEnd),
                IF hasColon THEN SubSeq(s, startFrom, startEnd) ELSE <<>>,
                IF hasRange THEN SubSeq(s, endFrom, endEnd) ELSE <<>>,
                IF hasVersion THEN SubSeq(s, versionFrom, versionEnd) ELSE <<>> >>
        ELSE <<>>

\* a ParsedReference; a component that is null is <<>>, one that is present
\* is a sequence of one element (the version code: its characters)
ParsedReference(book, chapter, verseStart, verseEnd, versionCode, errors) ==
    [book |-> book, chapter |-> chapter, verseStart |-> verseStart,
     verseEnd |-> verseEnd, versionCode |-> versionCode, errors |-> errors]

Null == <<>>

\* a token of the reference portion: Chapter[:Verse[-VerseEnd]]
IsReferenceToken(token) ==
    token # <<>> /\ (IsDigit(token[1]) \/ ":" \in Range(token))

IsAlnumToken(token) ==
    token # <<>> /\ \A i \in DOMAIN token : token[i] \in AlnumClass

\* the tokens after the book phrase are a chapter/verse/version tail
IsValidTail(tokens) ==
    \/ tokens = <<>>
    \/ Len(tokens) = 1 /\ (IsReferenceToken(tokens[1]) \/ IsAlnumToken(tokens[1]))
    \/ Len(tokens) = 2 /\ IsReferenceToken(tokens[1]) /\ IsAlnumToken(tokens[2])

\* the Book Resolver: the books that match the query, name-prefix matches
\* first, then by name, one entry for each name
ResolveBooks(query) ==
    LET bookSearch == ToLowerCase(query)
        sorted == UniqueBooks(SortBooks(SelectSeq(availableBooks,
                      LAMBDA b : BookStartsWith(b, bookSearch)), bookSearch))
    IN  [i \in DOMAIN sorted |-> sorted[i].book]

\* an unsigned integer component: null when nothing of it is typed
NumberComponent(digits) ==
    IF digits = <<>> \/ ~AllDigits(digits) THEN Null ELSE <<ParseInt(digits)>>

\* parseReference(text, availableBooks)
parseReference(text) ==
    LET parts == SplitSpaces(Trim(text))
        \* the book phrase has one token, or two after a bare 1, 2 or 3, and
        \* grows until the tokens after it are a valid tail
        least == IF IsIntroNum(parts) /\ Len(parts) > 1 THEN 2 ELSE 1
        stops == {k \in least..Len(parts) :
                      IsValidTail(SubSeq(parts, k + 1, Len(parts)))}
        bookLen == CHOOSE k \in stops : \A j \in stops : k <= j
        bookPhrase == JoinSpaces(SubSeq(parts, 1, bookLen))
        tail == SubSeq(parts, bookLen + 1, Len(parts))
        resolved == ResolveBooks(bookPhrase)
        refToken == IF tail # <<>> /\ IsReferenceToken(tail[1]) THEN tail[1] ELSE <<>>
        codeToken == IF tail = <<>> THEN <<>>
                     ELSE IF refToken = <<>> THEN tail[1]
                     ELSE IF Len(tail) = 2 THEN tail[2] ELSE <<>>
        split == Split(refToken, ":")
        chapterStr == split[1]
        verseStr == IF Len(split) > 1 THEN split[2] ELSE <<>>
        range == Split(verseStr, "-")
        startStr == range[1]
        endStr == IF Len(range) > 1 THEN range[2] ELSE <<>>
        chapter == NumberComponent(chapterStr)
        unresolved == bookPhrase # <<>> /\ resolved = <<>>
        outOfRange ==
            \/ refToken # <<>> /\ chapter = Null
            \/ chapter # Null /\ resolved # <<>> /\ chapter[1] > resolved[1].chapters
            \/ Len(split) > 2
            \/ startStr # <<>> /\ ~AllDigits(startStr)
            \/ startStr = <<>> /\ Len(range) > 1
            \/ endStr # <<>> /\ ~AllDigits(endStr)
            \/ Len(range) > 2
    IN  ParsedReference(
            IF resolved = <<>> THEN Null ELSE <<resolved[1]>>,
            chapter,
            NumberComponent(startStr),
            NumberComponent(endStr),
            codeToken,
            (IF unresolved THEN <<"ReferenceUnresolved">> ELSE <<>>)
                \o (IF outOfRange THEN <<"RangeOutOfBounds">> ELSE <<>>))

\* the components of a fully typed reference
ReferenceNumbers == {1, 2, 3, 10}
Components ==
    { c \in [book : Range(SubSeq(availableBooks, 1, 3)), chapter : ReferenceNumbers,
             verseStart : ReferenceNumbers,
             verseEnd : {Null} \cup {<<n>> : n \in {2, 12}},
             versionCode : {Null} \cup {v.code : v \in Range(availableVersions)}] :
        c.chapter <= c.book.chapters }

\* Book Chapter:Verse[-VerseEnd][ VersionCode]
Typed(c) ==
    c.book.name \o <<" ">> \o NumberChars(c.chapter) \o <<":">>
        \o NumberChars(c.verseStart)
        \o (IF c.verseEnd = Null THEN <<>> ELSE <<"-">> \o NumberChars(c.verseEnd[1]))
        \o (IF c.versionCode = Null THEN <<>> ELSE <<" ">> \o c.versionCode)

FullReferences == {Typed(c) : c \in Components}

Prefixes(s) == {SubSeq(s, 1, n) : n \in 0..Len(s)}

TextChars == {"J", "u", "b", "1", " ", "3", ":", "x", "a"}
FreeTexts == UNION {[1..n -> TextChars] : n \in 0..MaxTextLen}

\* a chapter past the end of the book, an unknown book, a chapter and a
\* trailing space
OtherTexts ==
    { <<"J", "o", "b", " ", "4", ":", "1">>,
      <<"Z", "e", "d", " ", "1", ":", "1">>,
      <<"J", "o", "b", " ", "3", " ">>,
      <<"1", " ", "J", "n", " ", "2", " ">>,
      <<"J", "o", "b", " ", " ", "1", "0", " ">>,
      \* a reference token followed by a token that starts no version code
      <<"J", "o", "b", " ", "2", " ", "x">>,
      <<"J", "o", "b", " ", "1", ":", "2", " ", "x">> }

RefStrings == (UNION {Prefixes(r) : r \in FullReferences}) \cup FreeTexts \cup OtherTexts

NoAnswer == [op |-> "none"]

\* handleSelectScripture(refString) up to the lookup
SelectScripture ==
    /\ availableBooks # <<>>
    /\ \E parsed \in {parseReference(refString)} :
           answer' = [op |-> "select", parsed |-> parsed,
                      lookup |-> ~(parsed.book = Null \/ parsed.errors # <<>>)]
    /\ UNCHANGED refString

SmartTransform ==
    /\ answer' = [op |-> "getSmartTransform", text |-> getSmartTransform(refString)]
    /\ UNCHANGED refString

Suggest ==
    /\ answer' = [op |-> "getSuggestions", list |-> getSuggestions(refString)]
    /\ UNCHANGED refString

\* a corpus whose book names spell the leading number in Roman numerals
RomanBooks ==
    << [name |-> <<"I", "I", "I", " ", "J", "u">>, id |-> <<"3", "j", "u">>,
        chapters |-> 1] >>

BookLists == {availableBooks, RomanBooks}
VersionLists == {availableVersions, <<>>}

\* getSuggestions called with the lists of a corpus
SuggestOf ==
    /\ \E bookList \in BookLists, versionList \in VersionLists :
           answer' = [op |-> "getSuggestionsOf", text |-> refString,
                      books |-> bookList, versions |-> versionList,
                      list |-> getSuggestionsOf(refString, bookList, versionList)]
    /\ UNCHANGED refString

\* the books handleChange validates the change against (lines 388-415)
ValidateBook ==
    /\ \E bookList \in BookLists :
           LET transformedVal == getSmartTransform(refString)
           IN  answer' = [op |-> "matchingBooks", text |-> transformedVal,
                          books |-> bookList,
                          matching |-> MatchingBooksIn(bookList,
                                           SplitSpaces(TrimStart(transformedVal)))]
    /\ UNCHANGED refString

\* !activeParsed.chapter: null and 0 alike
NoChapter(parsed) == parsed.chapter = Null \/ parsed.chapter = <<0>>

\* activeParsed.versionCode || selectedVersionCode || "NKJV"
VersionOf(parsed, selectedVersionCode) ==
    IF parsed.versionCode # Null THEN parsed.versionCode
    ELSE IF selectedVersionCode # Null THEN selectedVersionCode
    ELSE <<"N", "K", "J", "V">>

\* a handler that looks up whatever has a chapter
LookupOfChapter(parsed, selectedVersionCode) ==
    IF NoChapter(parsed) THEN NoAnswer
    ELSE [op |-> "lookupRef",
          ref |-> [parsed EXCEPT !.versionCode = VersionOf(parsed, selectedVersionCode)]]

\* the argument of the lookupRef call of handleEnter, or no call
LookupOfEnter(parsed, selectedVersionCode) ==
    IF parsed.book = Null \/ NoChapter(parsed) THEN NoAnswer
    ELSE [op |-> "lookupRef",
          ref |-> [parsed EXCEPT !.versionCode = VersionOf(parsed, selectedVersionCode)]]

\* handleEnter(refString) up to the lookup: the reference is parsed from the
\* text handed over, or is the one the input parsed from its value
Enter ==
    /\ \E selectedVersionCode \in {Null, <<"K", "J", "V">>},
          parsed \in {parseReference(refString)} :
           answer' = [op |-> "enter", parsed |-> parsed,
                      lookup |-> LookupOfEnter(parsed, selectedVersionCode)]
    /\ UNCHANGED refString

\* a change event that carries the text, with the input empty before it
TypeInto ==
    /\ answer' = [op |-> "handleChange", raw |-> refString,
                  decision |-> handleChange(<<>>, refString)]
    /\ UNCHANGED refString

\* one function is applied to the text: none of them has a state
TextNext ==
    /\ answer = NoAnswer
    /\ \/ SelectScripture
       \/ SmartTransform
       \/ Suggest
       \/ SuggestOf
       \/ ValidateBook
       \/ TypeInto
       \/ Enter

-----------------------------------------------------------------------------
(* One import at a time, of documents that exercise the decoders: file     *)
(* names that hold several known version codes, milestone verses with and  *)
(* without end markers, blank verse texts, several chapters, and JSON      *)
(* documents with a books array of their own.                              *)

Gen(chapter, verse) == <<"G", "e", "n", ".">> \o chapter \o <<".">> \o verse

\* <book name="Genesis"> with the verses 1:1 "a", 1:2 " " and 2:1 "b"
SimpleChapters ==
    Element("book", [name |-> Genesis],
        <<Element("chapter", [number |-> <<"1">>],
            <<Element("verse", [number |-> <<"1">>], <<TextNode(<<"a">>)>>),
              Element("verse", [number |-> <<"2">>], <<TextNode(<<" ">>)>>)>>),
          Element("chapter", [number |-> <<"2">>],
            <<Element("verse", [number |-> <<"1">>], <<TextNode(<<"b">>)>>)>>)>>)

\* milestones: 1:1 with a note and an end marker, text between the verses,
\* 1:2 with no end marker, 2:1 with an end marker, 2:2 with blank text
OsisMilestones ==
    Element("div", [type |-> <<"b", "o", "o", "k">>, osisID |-> <<"G", "e", "n">>],
        <<Element("verse", [sID |-> Gen(<<"1">>, <<"1">>)], <<>>),
          TextNode(<<"a">>),
          Element("note", Absent, <<TextNode(<<"n">>)>>),
          Element("verse", [eID |-> Gen(<<"1">>, <<"1">>)], <<>>),
          TextNode(<<"x">>),
          Element("verse", [sID |-> Gen(<<"1">>, <<"2">>)], <<>>),
          TextNode(<<" ", "b", " ">>),
          Element("verse", [sID |-> Gen(<<"2">>, <<"1">>)], <<>>),
          TextNode(<<"c">>),
          Element("verse", [eID |-> Gen(<<"2">>, <<"1">>)], <<>>),
          Element("verse", [sID |-> Gen(<<"2">>, <<"2">>)], <<>>),
          TextNode(<<" ">>),
          Element("verse", [eID |-> Gen(<<"2">>, <<"2">>)], <<>>)>>)

\* a verse that holds its text, then a milestone that runs to the end
OsisMixed ==
    Element("div", [type |-> <<"b", "o", "o", "k">>, osisID |-> <<"G", "e", "n">>],
        <<Element("verse", [osisID |-> Gen(<<"1">>, <<"1">>)], <<TextNode(<<"a">>)>>),
          Element("verse", [sID |-> Gen(<<"1">>, <<"2">>)], <<>>),
          TextNode(<<"b">>),
          Element("verse", [eID |-> Gen(<<"3">>, <<"9">>)], <<>>),
          TextNode(<<"c">>)>>)

DecoderRoots ==
    { Element("bible", Absent, <<SimpleChapters>>),
      Element("osis", Absent, <<OsisMilestones>>),
      Element("osis", Absent, <<OsisMixed>>) }

\* file names: AKJV holds KJV, ERV holds RV, NKJV holds KJV, k_j holds none
DecoderFileNames ==
    { XmlName(<<"a", "k", "j", "v">>), XmlName(<<"E", "R", "V">>),
      XmlName(<<"n", "k", "j", "v">>), XmlName(K_J), NoFileName }

JsonRow(chapter, t) == [bookId |-> "gen", chapter |-> chapter, verse |-> 1, text |-> t]

DecoderRowLists ==
    { <<JsonRow(1, "a")>>,
      <<JsonRow(1, "a"), JsonRow(2, "a")>>,
      <<JsonRow(1, " ")>>,
      <<JsonRow(1, "a"), JsonRow(1, "a")>>,
      <<>> }

DecoderInputs ==
    { [buffer |-> Raw([syntax |-> "xml", root |-> r, length |-> 60]),
       originalFileName |-> f] : r \in DecoderRoots, f \in DecoderFileNames }
    \cup
    { [buffer |-> Raw(JsonText([version |-> [id |-> "kj"], verses |-> JsonArray(l)] @@ b)),
       originalFileName |-> NoFileName] :
        l \in DecoderRowLists, b \in Optional("books", JsonBookLists) }

Importer == "p1"

DecodeNext ==
    /\ \/ \E in \in DecoderInputs : Start(Importer, in)
       \/ Begin(Importer)
       \/ PutVersion(Importer)
       \/ DeleteBooks(Importer)
       \/ DeleteVerses(Importer)
       \/ AddBooks(Importer)
       \/ AddVerses(Importer)
       \/ Commit(Importer)
    /\ UNCHANGED <<inputVars, textVars, playVars, speechVars>>

-----------------------------------------------------------------------------
(* usePlayback                                                             *)
(*                                                                         *)
(* Slide ids are non-empty strings, so a slide id is truthy and NoSlide    *)
(* stands for null and undefined alike.                                    *)

MaxInFlight == 2

NoSlide == "null"
SlideIds == {"s1", "s2", "s3"}
NoOrg == "null"
Org == "org1"

\* the hook before it is used
PlaybackIdle ==
    /\ orgId = NoOrg
    /\ playback = NoSlide
    /\ localActiveSlideId = NoSlide
    /\ hasLocalChanges = FALSE
    /\ stored = NoSlide
    /\ effectDue = FALSE
    /\ inFlight = <<>>
    /\ posted = NoSlide
    /\ selected = NoSlide

\* the first render: the state is initialised from localStorage, the query
\* has no result yet and the effect is to run
PlaybackInit ==
    /\ orgId \in {NoOrg, Org}
    /\ playback = NoSlide
    /\ stored \in {NoSlide} \cup SlideIds
    /\ localActiveSlideId = stored
    /\ hasLocalChanges = FALSE
    /\ effectDue = TRUE
    /\ inFlight = <<>>
    /\ posted = NoSlide
    /\ selected = NoSlide

\* localActiveSlideId ?? playback?.activeSlideId ?? null
activeSlideId ==
    IF localActiveSlideId # NoSlide THEN localActiveSlideId ELSE playback

\* an effect that takes the server value whenever there is one
SyncEffectAlways ==
    /\ effectDue
    /\ IF playback # NoSlide /\ playback # localActiveSlideId
       THEN /\ localActiveSlideId' = playback
            /\ stored' = playback
            /\ effectDue' = TRUE
       ELSE /\ effectDue' = FALSE
            /\ UNCHANGED <<localActiveSlideId, stored>>
    /\ UNCHANGED <<orgId, playback, hasLocalChanges, inFlight, posted, selected>>

\* the effect of lines 56-65; setLocalActiveSlideId changes a dependency,
\* so the effect runs once more after it
SyncEffect ==
    /\ effectDue
    /\ IF ~hasLocalChanges /\ playback # NoSlide /\ localActiveSlideId = NoSlide
       THEN /\ localActiveSlideId' = playback
            /\ stored' = playback
            /\ effectDue' = TRUE
       ELSE /\ effectDue' = FALSE
            /\ UNCHANGED <<localActiveSlideId, stored>>
    /\ UNCHANGED <<orgId, playback, hasLocalChanges, inFlight, posted, selected>>

\* selectSlide up to its await
selectSlide(slideId) ==
    IF orgId = NoOrg THEN UNCHANGED playVars
    ELSE /\ Len(inFlight) < MaxInFlight
         /\ hasLocalChanges' = TRUE
         /\ localActiveSlideId' = slideId
         /\ stored' = slideId
         /\ posted' = slideId
         /\ inFlight' = Append(inFlight, slideId)
         /\ effectDue' = (effectDue \/ slideId # localActiveSlideId)
         /\ selected' = slideId
         /\ UNCHANGED <<orgId, playback>>

\* the mutation setActiveSlide succeeds: the server has the slide id and the
\* query delivers it
SetActiveSlideDone ==
    /\ inFlight # <<>>
    /\ inFlight' = Tail(inFlight)
    /\ playback' = Head(inFlight)
    /\ effectDue' = (effectDue \/ playback' # playback)
    /\ UNCHANGED <<orgId, localActiveSlideId, hasLocalChanges, stored, posted, selected>>

\* the mutation throws (offline): the catch of lines 97-100
SetActiveSlideFailed ==
    /\ inFlight # <<>>
    /\ inFlight' = Tail(inFlight)
    /\ UNCHANGED <<orgId, playback, localActiveSlideId, hasLocalChanges, stored,
                   effectDue, posted, selected>>

\* another client changes the playback state of the organization
ServerUpdate(slideId) ==
    /\ orgId # NoOrg
    /\ slideId # playback
    /\ playback' = slideId
    /\ effectDue' = TRUE
    /\ UNCHANGED <<orgId, localActiveSlideId, hasLocalChanges, stored, inFlight,
                   posted, selected>>

\* the hook is rendered with another orgId: the query is skipped or starts
\* anew, without a result
SwitchOrg(id) ==
    /\ id # orgId
    /\ orgId' = id
    /\ playback' = NoSlide
    /\ effectDue' = (effectDue \/ playback # NoSlide)
    /\ UNCHANGED <<localActiveSlideId, hasLocalChanges, stored, inFlight, posted,
                   selected>>

PlayNext ==
    \/ SyncEffect
    \/ \E slideId \in SlideIds : selectSlide(slideId)
    \/ SetActiveSlideDone
    \/ SetActiveSlideFailed
    \/ \E slideId \in SlideIds \cup {NoSlide} : ServerUpdate(slideId)
    \/ \E id \in {NoOrg, Org} : SwitchOrg(id)

-----------------------------------------------------------------------------
(* useSpeechRecognition                                                    *)
(*                                                                         *)
(* The recognizer is the browser's: start() on an idle recognizer makes it *)
(* start and throws on any other; the start event comes later; stop()      *)
(* makes it end; an error event is followed by the end event; a running    *)
(* recognizer can end by itself.  After stop() on a recognizer whose start *)
(* event is still due, a browser may deliver the start event before the    *)
(* end event or the end event alone.                                       *)

MaxWords == 2

NoError == "null"
Errors == {"aborted", "no-speech"}
NoStart == [by |-> "none", bit |-> 0]

SpeechIdle(option) ==
    /\ continuous = option
    /\ isListening = FALSE
    /\ error = NoError
    /\ transcript = <<>>
    /\ interimTranscript = ""
    /\ isStoppingRef = FALSE
    /\ recognizer = "idle"
    /\ stopRequested = FALSE
    /\ wanted = FALSE
    /\ lastStart = NoStart

SpeechInit == \E option \in BOOLEAN : SpeechIdle(option)

\* recognition.start() inside a try: the state of the recognizer after it
Started == IF recognizer = "idle" THEN "starting" ELSE recognizer

\* the call is recorded when it does start the recognizer
StartedBy(caller) ==
    IF recognizer = "idle" THEN [by |-> caller, bit |-> 1 - lastStart.bit]
    ELSE lastStart

\* recognition.onstart
onstart ==
    /\ recognizer = "starting"
    /\ recognizer' = "running"
    /\ isListening' = TRUE
    /\ error' = NoError
    /\ isStoppingRef' = FALSE
    /\ UNCHANGED <<continuous, transcript, interimTranscript, stopRequested, wanted,
                   lastStart>>

\* recognition.onresult, with one result that is final or not
onresult(isFinal) ==
    /\ recognizer = "running"
    /\ IF isFinal
       THEN /\ Len(transcript) < MaxWords
            /\ transcript' = Append(transcript, "w")
            /\ interimTranscript' = ""
       ELSE /\ interimTranscript' = "w"
            /\ UNCHANGED transcript
    /\ UNCHANGED <<continuous, isListening, error, isStoppingRef, recognizer,
                   stopRequested, wanted, lastStart>>

\* recognition.onerror; the recognizer ends after an error
onerror(kind) ==
    /\ recognizer \in {"starting", "running"}
    /\ recognizer' = "ending"
    /\ IF kind = "aborted" /\ isStoppingRef
       THEN UNCHANGED <<error, isListening>>
       ELSE error' = kind /\ isListening' = FALSE
    /\ UNCHANGED <<continuous, transcript, interimTranscript, isStoppingRef,
                   stopRequested, wanted, lastStart>>

\* recognition.onend: the recognizer is idle when the handler runs
onend ==
    /\ \/ recognizer \in {"running", "ending"}
       \/ recognizer = "starting" /\ stopRequested
    /\ isListening' = FALSE
    /\ interimTranscript' = ""
    /\ stopRequested' = FALSE
    /\ IF ~isStoppingRef /\ continuous
       THEN /\ recognizer' = "starting"
            /\ lastStart' = [by |-> "onend", bit |-> 1 - lastStart.bit]
       ELSE /\ recognizer' = "idle"
            /\ UNCHANGED lastStart
    /\ UNCHANGED <<continuous, error, transcript, isStoppingRef, wanted>>

startListening ==
    /\ wanted' = TRUE
    /\ IF isListening
       THEN UNCHANGED <<continuous, isListening, error, transcript, interimTranscript,
                        isStoppingRef, recognizer, stopRequested, lastStart>>
       ELSE /\ transcript' = <<>>
            /\ interimTranscript' = ""
            /\ isStoppingRef' = FALSE
            /\ recognizer' = Started
            /\ lastStart' = StartedBy("startListening")
            /\ error' = IF recognizer = "idle" THEN NoError ELSE "InvalidStateError"
            /\ UNCHANGED <<continuous, isListening, stopRequested>>

stopListening ==
    /\ wanted' = FALSE
    /\ isStoppingRef' = TRUE
    /\ stopRequested' = (stopRequested \/ recognizer \in {"starting", "running"})
    /\ isListening' = FALSE
    /\ interimTranscript' = ""
    /\ UNCHANGED <<continuous, error, transcript, recognizer, lastStart>>

SpeechNext ==
    \/ startListening
    \/ stopListening
    \/ onstart
    \/ \E isFinal \in BOOLEAN : onresult(isFinal)
    \/ \E kind \in Errors : onerror(kind)
    \/ onend

-----------------------------------------------------------------------------

Init ==
    /\ ImportInit
    /\ InputInit
    /\ refString = <<>>
    /\ answer = NoAnswer
    /\ PlaybackIdle
    /\ SpeechIdle(TRUE)

Next == ImportNext /\ UNCHANGED <<inputVars, textVars, playVars, speechVars>>

Spec == Init /\ [][Next]_vars

InputSpec == Init /\ [][InputNext /\ UNCHANGED <<importVars, textVars, playVars, speechVars>>]_vars

\* The continuation of an await on a settled promise is a microtask: it runs
\* as soon as the handler that awaited has returned.  Resume is the step
\* that takes the oldest recomputation off the queue; SetSuggestions is the
\* one action that does so, and it is enabled exactly when Resume is.
Resume == pending # <<>> /\ pending' = Tail(pending)
InputLive ==
    Init /\ [][InputNext /\ UNCHANGED <<importVars, textVars, playVars, speechVars>>]_vars
         /\ WF_pending(Resume)
DecodeSpec == Init /\ [][DecodeNext]_vars

\* typing alone: characters appended and deleted at the end of the text
Append1(c) == Change(value \o <<c>>)
Backspace == value # <<>> /\ Change(SubSeq(value, 1, Len(value) - 1))
TypingNext ==
    \/ \E c \in TypingKeys : Append1(c)
    \/ Backspace
    \/ SetSuggestions

TypingSpec ==
    Init /\ [][TypingNext /\ UNCHANGED <<importVars, textVars, playVars, speechVars>>]_vars

TextInit ==
    /\ ImportInit
    /\ InputInit
    /\ refString \in RefStrings
    /\ answer = NoAnswer
    /\ PlaybackIdle
    /\ SpeechIdle(TRUE)

TextSpec == TextInit /\ [][TextNext /\ UNCHANGED <<importVars, inputVars, playVars, speechVars>>]_vars

PlayInit ==
    /\ ImportInit
    /\ InputInit
    /\ refString = <<>>
    /\ answer = NoAnswer
    /\ PlaybackInit
    /\ SpeechIdle(TRUE)

PlaySpec == PlayInit /\ [][PlayNext /\ UNCHANGED <<importVars, inputVars, textVars, speechVars>>]_vars

ListenInit ==
    /\ ImportInit
    /\ InputInit
    /\ refString = <<>>
    /\ answer = NoAnswer
    /\ PlaybackIdle
    /\ SpeechInit

SpeechSpec ==
    ListenInit /\ [][SpeechNext /\ UNCHANGED <<importVars, inputVars, textVars, playVars>>]_vars

-----------------------------------------------------------------------------
(* C9  Rule 1 of the keystroke validator.  Whatever the current value,     *)
(* a change event whose value is strictly shorter sets exactly that value  *)
(* and starts the suggestions for it: no book, chapter, version or         *)
(* character check refuses it and no smart transform rewrites it.          *)

IsDeletion == event.name = "change" /\ Len(event.raw) < Len(event.value)

DeletionAccepted ==
    IsDeletion =>
        /\ value = event.raw
        /\ pending = <<event.raw>>

\* a shorter value was accepted that the checks would have refused, coming
\* after a value that had passed them
DeletionWitness ==
    /\ IsDeletion
    /\ Blocked(getSmartTransform(event.raw))
    /\ ~Blocked(event.value)
    /\ value = event.raw

-----------------------------------------------------------------------------
(* C10  A refused keystroke is a no-op.  When a change event that is no    *)
(* deletion is refused (no book for the book phrase, chapter out of range, *)
(* illegal chapter or verse character, unknown version prefix, character   *)
(* outside the whitelist), the handler leaves the value, the suggestion    *)
(* list, the selection, the dropdown and the pending recomputations as     *)
(* they were.                                                              *)

Refused(oldVal, rawNewVal) ==
    /\ Len(rawNewVal) >= Len(oldVal)
    /\ LET val == getSmartTransform(rawNewVal)
           parts == SplitSpaces(TrimStart(val))
       IN  \/ NoBookMatches(parts)
           \/ ChapterBlocked(val, parts)
           \/ VerseBlocked(val, parts)
           \/ VersionBlocked(val, parts)
           \/ NotWhitelisted(val)

RefusedIsNoOp ==
    [][(event'.name = "change" /\ Refused(value, event'.raw)) =>
           UNCHANGED <<value, suggestions, selectedIndex, showDropdown, pending>>]_vars

\* a keystroke was refused for its last character alone, which is outside the
\* whitelist, while suggestions were on display
RefusedWitness ==
    /\ event.name = "change"
    /\ Refused(event.value, event.raw)
    /\ LET val == getSmartTransform(event.raw)
           parts == SplitSpaces(TrimStart(val))
       IN  /\ ~NoBookMatches(parts)
           /\ ~ChapterBlocked(val, parts)
           /\ ~VerseBlocked(val, parts)
           /\ ~VersionBlocked(val, parts)
           /\ NotWhitelisted(val)
    /\ value = event.value
    /\ value # <<>>
    /\ suggestions # <<>>
    /\ pending = <<>>

-----------------------------------------------------------------------------
(* C11  Chapter bound.  For every change event that is no deletion and     *)
(* whose chapter token is all digits, the edit is refused when the chapter *)
(* number exceeds the largest chapter count among the books that match the *)
(* book phrase, and an edit whose chapter equals that count is accepted    *)
(* (no other rule refusing it).                                            *)

\* the text before the first ":" of the first token after the book phrase
ChapterToken(val) ==
    LET remainingParts == RemainingParts(SplitSpaces(TrimStart(val)))
    IN  IF remainingParts = <<>> THEN <<>> ELSE Split(remainingParts[1], ":")[1]

IsEdit == event.name = "change" /\ Len(event.raw) >= Len(event.value)

ChapterBound ==
    IsEdit =>
        LET val == getSmartTransform(event.raw)
            parts == SplitSpaces(TrimStart(val))
            token == ChapterToken(val)
            matching == MatchingBooks(parts)
        IN  (token # <<>> /\ AllDigits(token) /\ matching # <<>>) =>
                /\ ParseInt(token) > MaxChaptersPossible(matching) =>
                       (value = event.value /\ pending = <<>>)
                /\ (/\ ParseInt(token) = MaxChaptersPossible(matching)
                    /\ ~VerseBlocked(val, parts)
                    /\ ~VersionBlocked(val, parts)
                    /\ ~NotWhitelisted(val)) =>
                       (value = Completed(event.value, val) /\ pending = <<value>>)

\* an edit whose chapter is the last chapter of the book was accepted
ChapterBoundWitness ==
    /\ IsEdit
    /\ LET val == getSmartTransform(event.raw)
           parts == SplitSpaces(TrimStart(val))
       IN  /\ MatchingBooks(parts) # <<>>
           /\ ChapterToken(val) # <<>>
           /\ AllDigits(ChapterToken(val))
           /\ ParseInt(ChapterToken(val)) = MaxChaptersPossible(MatchingBooks(parts))
           /\ value = val
    /\ pending = <<value>>

-----------------------------------------------------------------------------
(* C12  A fully typed reference, Book Chapter:Verse[-VerseEnd][ Version],  *)
(* whose book resolves and whose chapter is in range: the pattern of the   *)
(* parser matches it with exactly the typed components as its groups, and  *)
(* parseReference returns the book, the three numbers and the version code *)
(* with no error; a range end or a version code that is not typed is null. *)

Expected(c) ==
    ParsedReference(<<c.book>>, <<c.chapter>>, <<c.verseStart>>, c.verseEnd,
                    c.versionCode, <<>>)

Groups(c) ==
    << c.book.name, NumberChars(c.chapter), NumberChars(c.verseStart),
       IF c.verseEnd = Null THEN <<>> ELSE NumberChars(c.verseEnd[1]),
       c.versionCode >>

FullReferenceParsed ==
    answer.op = "select" =>
        \A c \in Components :
            refString = Typed(c) =>
                /\ ReferenceMatch(refString) = Groups(c)
                /\ answer.parsed = Expected(c)
                /\ answer.lookup

\* "1 Jn 2:10-12 NKJV" and "Job 3:1" have been parsed
FullReferenceWitness ==
    /\ answer.op = "select"
    /\ \/ /\ refString = <<"1", " ", "J", "n", " ", "2", ":", "1", "0", "-", "1", "2",
                           " ", "N", "K", "J", "V">>
          /\ answer.parsed.book[1].name = <<"1", " ", "J", "n">>
          /\ answer.parsed.chapter = <<2>>
          /\ answer.parsed.verseStart = <<10>>
          /\ answer.parsed.verseEnd = <<12>>
          /\ answer.parsed.versionCode = <<"N", "K", "J", "V">>
       \/ /\ refString = <<"J", "o", "b", " ", "3", ":", "1">>
          /\ answer.parsed.verseEnd = Null
          /\ answer.parsed.versionCode = Null
    /\ answer.parsed.errors = <<>>

-----------------------------------------------------------------------------
(* C13  A text that is a prefix of a valid reference (nothing typed, part  *)
(* of a book name, a book, a book and a chapter, a book, a chapter and a   *)
(* colon, and so on) is parsed with no error: the components that are not  *)
(* typed yet are null, never errors.                                       *)

IsPrefixOfValid(text) == \E r \in FullReferences : text \in Prefixes(r)

-----------------------------------------------------------------------------
(* C14  getSmartTransform rewrites a text made of a book phrase (with or   *)
(* without a leading 1, 2 or 3), white space, an integer and one trailing  *)
(* white-space character into the book phrase, one space, the integer and  *)
(* a colon, and returns every other text as it is.                         *)

\* words after an optional 1, 2 or 3: letters and white space, a letter
\* first and last
IsBookPhrase(phrase) ==
    LET words == TrimStart(IF phrase # <<>> /\ phrase[1] \in {"1", "2", "3"}
                           THEN Tail(phrase) ELSE phrase)
    IN  /\ words # <<>>
        /\ IsLetter(words[1])
        /\ IsLetter(words[Len(words)])
        /\ \A i \in DOMAIN words : IsLetter(words[i]) \/ IsSpace(words[i])

\* the text before the last white-space run that precedes the final integer
PhraseBefore(text) ==
    LET n == Len(text)
        digitsFrom == CHOOSE i \in 1..n :
                          /\ \A j \in i..(n - 1) : IsDigit(text[j])
                          /\ i = 1 \/ ~IsDigit(text[i - 1])
    IN  [phrase |-> Trim(SubSeq(text, 1, digitsFrom - 1)),
         spaced |-> digitsFrom > 1 /\ IsSpace(text[digitsFrom - 1]),
         digits |-> SubSeq(text, digitsFrom, n - 1)]

IsBookChapterSpace(text) ==
    /\ Len(text) >= 2
    /\ IsSpace(text[Len(text)])
    /\ PhraseBefore(text).digits # <<>>
    /\ PhraseBefore(text).spaced
    /\ IsBookPhrase(PhraseBefore(text).phrase)

SmartTransformExact ==
    answer.op = "getSmartTransform" =>
        answer.text = IF IsBookChapterSpace(refString)
                      THEN PhraseBefore(refString).phrase \o <<" ">>
                               \o PhraseBefore(refString).digits \o <<":">>
                      ELSE refString

\* the half of it that is about the texts of that form
SmartTransformRewrites ==
    (answer.op = "getSmartTransform" /\ IsBookChapterSpace(refString)) =>
        answer.text = PhraseBefore(refString).phrase \o <<" ">>
                          \o PhraseBefore(refString).digits \o <<":">>

-----------------------------------------------------------------------------
(* C15  Book phase of getSuggestions.  For a text that is one book phrase  *)
(* with no space after it, the suggestions are the first five names of the *)
(* books whose name, id or abbreviation starts with the lowercased phrase: *)
(* every suggestion has type book, the names that start with the phrase    *)
(* come before all other names, each group is in alphabetical order, and   *)
(* a name that several books have appears once.                            *)

InBookPhase(text) ==
    LET parts == SplitSpaces(TrimStart(text))
    IN  /\ TrimStart(text) # <<>>
        /\ ~EndsWithSpace(text)
        /\ Len(parts) = 1 \/ (Len(parts) = 2 /\ IsIntroNum(parts))

Query(text) == ToLowerCase(JoinSpaces(SplitSpaces(TrimStart(text))))

MatchedNames(query) ==
    {b.name : b \in {m \in Range(availableBooks) : BookStartsWith(m, query)}}

RankedBefore(n1, n2, query) ==
    LET starts1 == StartsWith(ToLowerCase(n1), query)
        starts2 == StartsWith(ToLowerCase(n2), query)
    IN  \/ starts1 /\ ~starts2
        \/ starts1 = starts2 /\ localeCompare(n1, n2) < 0

BookPhaseRanked ==
    (answer.op = "getSuggestions" /\ InBookPhase(refString)) =>
        LET list == answer.list
            query == Query(refString)
            names == MatchedNames(query)
            shown == {list[i].text : i \in DOMAIN list}
        IN  /\ Len(list) = IF Cardinality(names) < 5 THEN Cardinality(names) ELSE 5
            /\ \A i \in DOMAIN list :
                   /\ list[i] = [text |-> list[i].text, type |-> "book"]
                   /\ list[i].text \in names
            /\ \A i, j \in DOMAIN list :
                   i < j => RankedBefore(list[i].text, list[j].text, query)
            /\ \A n \in names \ shown :
                   \A i \in DOMAIN list : RankedBefore(list[i].text, n, query)

\* eight books of seven names matched and five names were suggested
BookPhaseWitness ==
    /\ answer.op = "getSuggestions"
    /\ InBookPhase(refString)
    /\ Cardinality(MatchedNames(Query(refString))) = 7
    /\ Len(answer.list) = 5

-----------------------------------------------------------------------------
(* C16  Version code from the file name.  When an XML document gives no    *)
(* code attribute and its file name holds at least one known version code, *)
(* the code of the version is the longest known code that the file name    *)
(* holds, whatever shorter known codes it holds too.                       *)

\* the known codes that the upper-cased file name holds
KnownCodesIn(fileNameBase) ==
    { ToUpperCase(KNOWN_BIBLE_VERSIONS[i]) : i \in
        { k \in DOMAIN KNOWN_BIBLE_VERSIONS :
            Includes(ToUpperCase(fileNameBase), ToUpperCase(KNOWN_BIBLE_VERSIONS[k])) } }

CodeAttributes == {"abbreviation", "shortName", "code", "identifier"}

IsXmlDocument(in) ==
    /\ ~in.buffer.zip
    /\ in.buffer.content.syntax = "xml"
    /\ ~EndsWith(in.originalFileName, DotJson)

NoCodeAttribute(in) ==
    LET all == Walk(<<in.buffer.content.root>>)
    IN  \A i \in DOMAIN all : DOMAIN all[i].el.attrs \cap CodeAttributes = {}

LongestCodeWins ==
    \A i \in DOMAIN done :
        LET in == done[i].input
            known == KnownCodesIn(FileNameBase(in.originalFileName))
        IN  (/\ ~done[i].job.threw
             /\ IsXmlDocument(in)
             /\ NoCodeAttribute(in)
             /\ known # {}) =>
                \E c \in known :
                    /\ \A o \in known : Len(o) <= Len(c)
                    /\ done[i].job.version.code = Str(c)

\* the code is always one of the known codes that the file name holds
KnownCodeWins ==
    \A i \in DOMAIN done :
        LET in == done[i].input
            known == KnownCodesIn(FileNameBase(in.originalFileName))
        IN  (/\ ~done[i].job.threw
             /\ IsXmlDocument(in)
             /\ NoCodeAttribute(in)
             /\ known # {}) =>
                \E c \in known : done[i].job.version.code = Str(c)

-----------------------------------------------------------------------------
(* C17  Milestone verses of OSIS.  For a start marker <verse sID=X/> with  *)
(* no text of its own, the verse text is the trimmed text of the siblings  *)
(* strictly between the marker and the first later sibling that is a verse *)
(* start or the end marker with eID = X: no text of the next verse is in   *)
(* it, a sibling list without such a sibling is read to its end, and an    *)
(* end marker gives no verse record.                                       *)

IsVerseStart(node) ==
    /\ IsElement(node)
    /\ node.tag = "verse"
    /\ (Has(node.attrs, "osisID") \/ Has(node.attrs, "sID"))

\* the index of the sibling that ends the verse begun at index i
StopAfter(kids, i) ==
    LET stops == { j \in (i + 1)..Len(kids) :
                     \/ IsVerseStart(kids[j])
                     \/ IsElement(kids[j])
                        /\ GetAttribute(kids[j], "eID") = GetAttribute(kids[i], "sID") }
    IN  IF stops = {} THEN Len(kids) + 1
        ELSE CHOOSE j \in stops : \A k \in stops : j <= k

\* the verses of a book whose verse elements are siblings: chapter, verse
\* and text, in document order
SiblingVerses(kids) ==
    LET starts == SelectSeq([i \in DOMAIN kids |-> i], LAMBDA i : IsVerseStart(kids[i]))
        TextAt(i) ==
            IF Trim(TextContent(kids[i])) = <<>> /\ GetAttribute(kids[i], "sID") # <<>>
            THEN KidsText(SubSeq(kids, i + 1, StopAfter(kids, i) - 1))
            ELSE TextContent(kids[i])
        IdAt(i) == Split(IF GetAttribute(kids[i], "osisID") # <<>>
                         THEN GetAttribute(kids[i], "osisID")
                         ELSE GetAttribute(kids[i], "sID"), ".")
        withText == SelectSeq(starts, LAMBDA i : Trim(TextAt(i)) # <<>>)
    IN  [k \in DOMAIN withText |->
            [chapter |-> ParseInt(IdAt(withText[k])[2]),
             verse |-> ParseInt(IdAt(withText[k])[3]),
             text |-> Str(Trim(TextAt(withText[k])))]]

IsOsisDocument(in) ==
    /\ IsXmlDocument(in)
    /\ in.buffer.content.root.tag = "osis"
    /\ Len(in.buffer.content.root.kids) = 1
    /\ GetAttribute(in.buffer.content.root.kids[1], "type") = <<"b", "o", "o", "k">>

MilestoneReconstruction ==
    \A i \in DOMAIN done :
        (~done[i].job.threw /\ IsOsisDocument(done[i].input)) =>
            [k \in DOMAIN done[i].job.verses |->
                [chapter |-> done[i].job.verses[k].chapter,
                 verse |-> done[i].job.verses[k].verse,
                 text |-> done[i].job.verses[k].text]]
            = SiblingVerses(done[i].input.buffer.content.root.kids[1].kids)

\* a document with a milestone closed by its end marker, one closed by the
\* next start and one with blank text has been decoded
MilestoneWitness ==
    \E i \in DOMAIN done :
        /\ done[i].outcome = "ok"
        /\ IsOsisDocument(done[i].input)
        /\ done[i].input.buffer.content.root.kids[1] = OsisMilestones
        /\ Len(done[i].job.verses) = 3
        /\ done[i].job.verses[1].text = "an"
        /\ done[i].job.verses[2].text = "b"
        /\ done[i].job.verses[3].text = "c"

-----------------------------------------------------------------------------
(* C18  Every verse record that a decoder hands to the importer, and so    *)
(* every verse record of the store, has a text that is not empty when      *)
(* white space is trimmed off.                                             *)

BlankTexts == {"", " ", "  ", "\n", "\t"}

VerseTextNotBlank ==
    /\ \A i \in DOMAIN done :
           ~done[i].job.threw =>
               \A k \in DOMAIN done[i].job.verses :
                   done[i].job.verses[k].text \notin BlankTexts
    /\ \A v \in verses : v.text \notin BlankTexts

\* the OSIS decoder alone never hands over a blank text
OsisTextNotBlank ==
    \A i \in DOMAIN done :
        (~done[i].job.threw /\ IsOsisDocument(done[i].input)) =>
            \A k \in DOMAIN done[i].job.verses :
                done[i].job.verses[k].text \notin BlankTexts

-----------------------------------------------------------------------------
(* C19  For every book record that an import writes, its chapter count is  *)
(* at least the chapter number of every verse record the import writes for *)
(* the same version and book id, for JSON, simple XML and OSIS documents.  *)

ChaptersCover(decoded) ==
    \A b \in DOMAIN decoded.books : \A k \in DOMAIN decoded.verses :
        (/\ decoded.verses[k].version = decoded.books[b].version
         /\ decoded.verses[k].bookId = decoded.books[b].id) =>
            decoded.books[b].chapters >= decoded.verses[k].chapter

ChapterCountCovers ==
    \A i \in DOMAIN done : done[i].outcome = "ok" => ChaptersCover(done[i].job)

\* the same for the two XML decoders alone
XmlChapterCountCovers ==
    \A i \in DOMAIN done :
        (done[i].outcome = "ok" /\ IsXmlDocument(done[i].input)) =>
            ChaptersCover(done[i].job)

-----------------------------------------------------------------------------
(* C20  The store operations of one import.  As stated: the books and the  *)
(* verses of the version id are deleted before the version record is       *)
(* written.                                                                *)

Position(ops, op) ==
    IF op \in Range(ops) THEN CHOOSE i \in DOMAIN ops : ops[i] = op ELSE 0

DeletesBeforeVersion ==
    \A p \in Procs :
        "putVersion" \in Range(writes[p]) =>
            /\ Position(writes[p], "deleteBooks") > 0
            /\ Position(writes[p], "deleteBooks") < Position(writes[p], "putVersion")
            /\ Position(writes[p], "deleteVerses") > 0
            /\ Position(writes[p], "deleteVerses") < Position(writes[p], "putVersion")

(* C20 as amended: within one transaction the version record is written    *)
(* first, then the books and the verses of the version id are deleted,     *)
(* then the books are inserted in one operation (only when there is at     *)
(* least one), then the verse batches are inserted in the order of the     *)
(* verse list; an import that ends well has done all of these, in order.   *)

ExpectedWrites(decoded) ==
    <<"putVersion", "deleteBooks", "deleteVerses">>
        \o (IF decoded.books # <<>> THEN <<"addBooks">> ELSE <<>>)
        \o [i \in 1..TotalBatches(decoded.verses) |-> "addVerses"]

IsPrefix(a, b) == Len(a) <= Len(b) /\ SubSeq(b, 1, Len(a)) = a

WritesInOrder ==
    /\ \A p \in Procs :
           pc[p] \notin {"idle", "queued"} =>
               /\ IsPrefix(writes[p], ExpectedWrites(job[p]))
               /\ pc[p] = "addVerses" =>
                      \* batch[p] batches have been inserted: the first ones
                      /\ Len(SelectSeq(writes[p], LAMBDA op : op = "addVerses")) = batch[p]
                      /\ \A k \in DOMAIN job[p].verses :
                             k <= batch[p] * BATCH_SIZE => job[p].verses[k] \in verses
    /\ \A i \in DOMAIN done :
           done[i].outcome = "ok" => done[i].writes = ExpectedWrites(done[i].job)

\* an import with a book and two batches has ended
WritesWitness ==
    \E i \in DOMAIN done :
        /\ done[i].outcome = "ok"
        /\ done[i].writes = <<"putVersion", "deleteBooks", "deleteVerses", "addBooks",
                              "addVerses", "addVerses">>


-----------------------------------------------------------------------------
(* C21  Content sniffing.  An input that is no archive goes to the JSON    *)
(* decoder exactly when its decoded text starts with an opening brace and  *)
(* to the XML decoder otherwise, with or without a file name and whatever  *)
(* the extension of the file name.                                         *)

NotArchive(in) == ~in.buffer.zip

SniffedDecoder(in) ==
    IF StartsWithBrace(BufferText(in.buffer)) THEN "importFromJson" ELSE "importFromXml"

DispatchByContent ==
    \A i \in DOMAIN done :
        NotArchive(done[i].input) =>
            Decoder(done[i].input.buffer, done[i].input.originalFileName)
                = SniffedDecoder(done[i].input)

\* without a file name the content decides
DispatchByContentUnnamed ==
    \A i \in DOMAIN done :
        NotArchive(done[i].input) /\ done[i].input.originalFileName = NoFileName =>
            Decoder(done[i].input.buffer, done[i].input.originalFileName)
                = SniffedDecoder(done[i].input)

-----------------------------------------------------------------------------
(* C22  One book matching.  For every text that is not blank and every     *)
(* list of books, the books the validator of handleChange matches the book *)
(* phrase of the smart-transformed text against are the books that         *)
(* getSuggestions matches for the same text, also when the text starts     *)
(* with a bare 1, 2 or 3 followed by whitespace.                           *)

IsBlank(text) == TrimStart(text) = <<>>

SameCandidateBooks ==
    answer.op = "matchingBooks" /\ ~IsBlank(answer.text) =>
        Range(answer.matching) = Range(MatchedBooks(answer.books, answer.text))

\* the two agree on every text that does not open with a bare 1, 2 or 3
\* followed by nothing but whitespace
SameCandidateBooksPastNumber ==
    /\ answer.op = "matchingBooks"
    /\ ~IsBlank(answer.text)
    /\ LET parts == SplitSpaces(TrimStart(answer.text))
       IN  ~(IsIntroNum(parts) /\ Len(parts) > 1 /\ parts[2] = <<>>)
    => Range(answer.matching) = Range(MatchedBooks(answer.books, answer.text))

-----------------------------------------------------------------------------
(* C23  Book just finished.  For an input that is a book phrase matching   *)
(* a book, followed by a trailing space and nothing else, getSuggestions   *)
(* returns exactly one suggestion, of type chapter, with the text of the   *)
(* name of the first matched book followed by " 1", whatever the list of   *)
(* known versions.                                                         *)

\* a book phrase that matches a book of the list, then whitespace only
BookJustFinished(text, bookList) ==
    /\ ~IsBlank(text)
    /\ Remaining(SplitSpaces(TrimStart(text))) = <<<<>>>>
    /\ MatchedBooks(bookList, text) # <<>>

ChapterOne(text, bookList) ==
    <<[text |-> MatchedBooks(bookList, text)[1].name \o <<" ", "1">>,
       type |-> "chapter"]>>

ChapterOneAfterBook ==
    answer.op = "getSuggestionsOf" /\ BookJustFinished(answer.text, answer.books) =>
        answer.list = ChapterOne(answer.text, answer.books)

\* with no known version the single chapter suggestion is returned
ChapterOneWithoutVersions ==
    /\ answer.op = "getSuggestionsOf"
    /\ answer.versions = <<>>
    /\ BookJustFinished(answer.text, answer.books)
    => answer.list = ChapterOne(answer.text, answer.books)

-----------------------------------------------------------------------------
(* C24  Phase priority.  The suggestions getSuggestions returns are those  *)
(* of one phase: they all have one type, and once the version phase is     *)
(* triggered (a reference token followed by another token or by a trailing *)
(* space) no verse and no chapter suggestion is returned, also when no     *)
(* known version code starts with the typed prefix.                        *)

Types(list) == {list[i].type : i \in DOMAIN list}

\* a reference token, then another token or a trailing space
VersionTriggered(text) ==
    LET remaining == Remaining(SplitSpaces(TrimStart(text)))
    IN  /\ ~IsBlank(text)
        /\ Len(remaining) >= 2
        /\ remaining[1] # <<>>

OneType == answer.op = "getSuggestionsOf" => Cardinality(Types(answer.list)) <= 1

PhasePriority ==
    answer.op = "getSuggestionsOf" =>
        /\ Cardinality(Types(answer.list)) <= 1
        /\ VersionTriggered(answer.text) =>
               Types(answer.list) \cap {"verse", "chapter"} = {}

\* what holds instead: verse and chapter suggestions come after the version
\* phase only when no known version code starts with the last token
VersionPhaseFirst ==
    /\ answer.op = "getSuggestionsOf"
    /\ VersionTriggered(answer.text)
    /\ Types(answer.list) \cap {"verse", "chapter"} # {}
    => LET remaining == Remaining(SplitSpaces(TrimStart(answer.text)))
       IN  \A i \in DOMAIN answer.versions :
               ~StartsWith(ToLowerCase(answer.versions[i].code),
                           ToLowerCase(remaining[Len(remaining)]))

-----------------------------------------------------------------------------
(* C25  Inline completion.  When a change event that passes the checks     *)
(* lengthens the value, no token follows the book phrase and all matching  *)
(* books have one name, the value becomes that name followed by one space, *)
(* provided that is longer than the typed value (else the typed value);    *)
(* and the typed text is a prefix of the value set, letter case aside.     *)

\* the change of oldVal to raw is accepted, lengthens the value, leaves the
\* book phrase open and matches books of one name only
CompletionCase(oldVal, raw) ==
    /\ Len(raw) >= Len(oldVal)
    /\ ~Refused(oldVal, raw)
    /\ LET val == getSmartTransform(raw)
           parts == SplitSpaces(TrimStart(val))
           matching == MatchingBooks(parts)
       IN  /\ Len(val) > Len(oldVal)
           /\ RemainingParts(parts) = <<>>
           /\ ~(~IsIntroNum(parts) /\ Len(parts) > 1)
           /\ Cardinality({matching[i].name : i \in DOMAIN matching}) = 1

TheName(raw) == MatchingBooks(SplitSpaces(TrimStart(getSmartTransform(raw))))[1].name

NameOrTyped(raw) ==
    IF Len(TheName(raw)) + 1 > Len(getSmartTransform(raw))
    THEN TheName(raw) \o <<" ">>
    ELSE getSmartTransform(raw)

KeepsTyped(raw, val) == StartsWith(ToLowerCase(val), ToLowerCase(getSmartTransform(raw)))

InlineCompletion ==
    answer.op = "handleChange" /\ CompletionCase(<<>>, answer.raw) =>
        /\ answer.decision.value = NameOrTyped(answer.raw)
        /\ KeepsTyped(answer.raw, answer.decision.value)

\* the value set is the one name and a space, or the typed value
CompletedToName ==
    answer.op = "handleChange" /\ CompletionCase(<<>>, answer.raw) =>
        answer.decision.value = NameOrTyped(answer.raw)

\* the same for the change events of the input, whatever the value before
CompletedToNameTyping ==
    event.name = "change" /\ CompletionCase(event.value, event.raw) =>
        value = NameOrTyped(event.raw)

\* typing alone, the completion drops typed whitespace
InlineCompletionTyping ==
    event.name = "change" /\ CompletionCase(event.value, event.raw) =>
        KeepsTyped(event.raw, value)

-----------------------------------------------------------------------------
(* C26  Suggestions follow the accepted value.  A change event that is     *)
(* accepted (a deletion, a validated value or a completed value) starts    *)
(* one recomputation of the suggestions, for exactly the value it set, and *)
(* a refused one starts none; the recomputation that a change started is   *)
(* the next to finish, before any other handler runs, so that the          *)
(* suggestions come to be getSuggestions of the current value.             *)

EditStartsOne ==
    [][event'.name = "change" =>
           IF Refused(value, event'.raw)
           THEN pending' = pending /\ value' = value
           ELSE pending' = Append(pending, value')]_vars

NewestWins ==
    [][(event.name = "change" /\ pending # <<>>) =>
           /\ pending' = <<>>
           /\ value' = value
           /\ suggestions' = getSuggestions(value)]_vars

Settles ==
    (event.name = "change" /\ pending # <<>>)
        ~> (pending = <<>> /\ suggestions = getSuggestions(value))

SuggestionsFollowValue == EditStartsOne /\ NewestWins /\ Settles

\* a change was completed to a book name while the suggestions of the value
\* before it are still the ones on display
SuggestionsWitness ==
    /\ event.name = "change"
    /\ ~Refused(event.value, event.raw)
    /\ value # event.raw
    /\ pending = <<value>>
    /\ suggestions # <<>>
    /\ suggestions # getSuggestions(value)

-----------------------------------------------------------------------------
(* C27  Local selection wins.  Once selectSlide has run with an            *)
(* organization id, the local active slide id and the active slide id the  *)
(* hook reports are the slide selected last, whatever the server playback  *)
(* state becomes and whether or not the mutation succeeds; before any      *)
(* selection, the local id changes only from no value to the server value. *)

ReportsSelected ==
    selected # NoSlide =>
        /\ localActiveSlideId = selected
        /\ activeSlideId = selected

ServerLeavesSelection ==
    [][(selected # NoSlide /\ playback' # playback) =>
           localActiveSlideId' = localActiveSlideId]_vars

AdoptedOnlyWithoutLocal ==
    [][(selected' = NoSlide /\ localActiveSlideId' # localActiveSlideId) =>
           /\ localActiveSlideId = NoSlide
           /\ localActiveSlideId' = playback]_vars

-----------------------------------------------------------------------------
(* C28  No restart after stop.  recognition.start() is called from the     *)
(* end event only while the user is to be listening: once stopListening    *)
(* has been called, no call starts the recognizer until startListening is  *)
(* called, in whatever order the recognizer delivers its start, end and    *)
(* error events.                                                           *)

NoRestartAfterStop ==
    [][(~wanted /\ ~wanted') => lastStart' = lastStart]_vars

\* the same, for a stop that comes after the start event of the recognizer
NoRestartAfterStopRunning ==
    [][(~wanted /\ ~wanted' /\ isStoppingRef) => lastStart' = lastStart]_vars

-----------------------------------------------------------------------------
(* C29  Typed values stay resolvable.  With fixed lists of books and       *)
(* versions, starting from the empty input, after any sequence of single   *)
(* characters appended and deleted at the end of the text, the value is    *)
(* blank or its book phrase is a prefix of the name, the id or the         *)
(* abbreviation of at least one book.                                      *)

Resolvable(val) ==
    \/ IsBlank(val)
    \/ MatchingBooks(SplitSpaces(TrimStart(val))) # <<>>

TypedStaysResolvable == Resolvable(value)

\* the same with the book phrase as getSuggestions takes it
TypedStaysSuggestible ==
    IsBlank(value) \/ MatchedBooks(availableBooks, value) # <<>>

\* a book and a chapter were typed, the space after the chapter became a
\* colon, and the colon was deleted
TypedWitness ==
    /\ event.name = "change"
    /\ event.value = <<"J", "o", "b", " ", "3", ":">>
    /\ value = <<"J", "o", "b", " ", "3">>

-----------------------------------------------------------------------------
(* C30  No lookup without a book.  Neither handleEnter nor                 *)
(* handleSelectScripture calls lookupRef with a reference whose book is    *)
(* null; handleEnter calls it only with a chapter, and                     *)
(* handleSelectScripture only with no errors.                              *)

NoLookupWithoutBook ==
    /\ (answer.op = "enter" /\ answer.lookup # NoAnswer) =>
           /\ answer.lookup.ref.book # Null
           /\ answer.lookup.ref.chapter # Null
           /\ answer.parsed.book # Null
    /\ (answer.op = "select" /\ answer.lookup) =>
           /\ answer.parsed.book # Null
           /\ answer.parsed.errors = <<>>

\* Enter on a reference whose chapter is past the end of the book: it has a
\* book, a chapter and an error, and is looked up in the default version
LookupWitness ==
    /\ answer.op = "enter"
    /\ answer.lookup # NoAnswer
    /\ answer.parsed.errors # <<>>
    /\ answer.lookup.ref.versionCode = <<"N", "K", "J", "V">>

====
